---- MODULE Spec2Model ----
(***************************************************************************)
(* Model of the Safespill hangar-project scraper: the result validator and *)
(* batch classifier (analyzer.py and its older variant anaylzer.py), the   *)
(* cross-run deduplicator (main.py, excel_handler.py), the report writer   *)
(* (excel_handler.py), the searches and the normalizer (news_scraper.py)   *)
(* and the region run (main.py, email_sender.py).                          *)
(***************************************************************************)
EXTENDS Integers, Sequences, FiniteSets, TLC

VARIABLES
    variant,        \* which analyzer module is in use: "analyzer" | "anaylzer"
    raw,            \* validate_result: the raw classification object passed in
    validated,      \* validate_result: [raised, result] once it has run
    vpc,            \* validate_result: "idle" | "call" | "done"
    articles,       \* process_all_articles: the input list
    batch_size,     \* HangarArticleAnalyzer.batch_size
    default_region, \* HangarArticleAnalyzer.default_region (analyzer.py)
    i,              \* process_all_articles: the loop's offset into articles
    all_results,    \* process_all_articles: results accumulated so far
    calls,          \* log: one entry per analyze_batch call
    output,         \* process_all_articles: the returned list
    cpc,            \* process_all_articles: "idle" | "loop" | "done" | "raised"
    files,          \* the reports directory: region -> workbook (<<>>: no file)
    self_region,         \* the region the process works on (ExcelHandler.self_region)
    week_number,           \* the ISO week number the clock gives
    candidates,       \* the run's list of candidate articles
    existing_urls,  \* SafespillScraper.existing_urls
    pattern_set,    \* ExcelHandler.pattern_set of the region's handler
    loaded,         \* log: the seen-sets as they were when last loaded
    last,           \* log: the last operation and its result
    search_results, \* scrape_all_sources: all_articles, the raw search results
    unique_articles, \* scrape_all_sources: its return value
    processed_articles, \* process_articles: the returned list
    npc,            \* normalizer: "idle" | "searched" | "scraped" | "processed"
    search,         \* scrape_all_sources: the loop over the queries and its position
    config,         \* Config: which credentials the environment provides
    run,            \* log: the last run_scraping_for_region and how far it got
    artifact,       \* concurrent writers: the region file they share
    writers,        \* concurrent writers: each process's handler and position
    overlap         \* log: two runs of concurrent writers have overlapped

validateVars == <<raw, validated, vpc>>
classifyVars == <<articles, batch_size, default_region, i, all_results, calls, output, cpc>>
dedupVars == <<files, self_region, week_number, candidates, existing_urls, pattern_set, loaded, last>>
normalizeVars == <<search_results, unique_articles, processed_articles, npc, search>>
runVars == <<config, run>>
concurrentVars == <<artifact, writers, overlap>>
vars == <<variant, validateVars, classifyVars, dedupVars, normalizeVars, runVars, concurrentVars>>

Variants == {"analyzer", "anaylzer"}

(***************************************************************************)
(* Python values.  A JSON value is a record [t, s, n]: t is its type, s    *)
(* the characters of a string, n the number, the truth value (0/1) of a    *)
(* boolean or the length of a list.  "missing" is a key absent from the    *)
(* dict.                                                                   *)
(***************************************************************************)
Missing == [t |-> "missing", s |-> <<>>, n |-> 0]
Null == [t |-> "null", s |-> <<>>, n |-> 0]
Str(s) == [t |-> "str", s |-> s, n |-> 0]
Num(n) == [t |-> "num", s |-> <<>>, n |-> n]
Bool(b) == [t |-> "bool", s |-> <<>>, n |-> IF b THEN 1 ELSE 0]
List(n) == [t |-> "list", s |-> <<>>, n |-> n]

\* dict.get(key, default)
Get(v, default) == IF v.t = "missing" THEN default ELSE v

\* Python truthiness (bool(x), `if x`)
Truthy(v) ==
    CASE v.t = "str" -> Len(v.s) > 0
      [] v.t = "num" -> v.n # 0
      [] v.t = "bool" -> v.n = 1
      [] v.t = "list" -> v.n > 0
      [] OTHER -> FALSE

\* len(x) is defined for strings and lists only; it raises TypeError otherwise
HasLen(v) == v.t \in {"str", "list"}
PyLen(v) == IF v.t = "str" THEN Len(v.s) ELSE v.n

LowerLetters ==
    <<"a","b","c","d","e","f","g","h","i","j","k","l","m",
      "n","o","p","q","r","s","t","u","v","w","x","y","z">>
UpperLetters ==
    <<"A","B","C","D","E","F","G","H","I","J","K","L","M",
      "N","O","P","Q","R","S","T","U","V","W","X","Y","Z">>

\* str.upper(), character by character
UpperChar(c) ==
    IF \E k \in 1..Len(LowerLetters) : LowerLetters[k] = c
    THEN UpperLetters[CHOOSE k \in 1..Len(LowerLetters) : LowerLetters[k] = c]
    ELSE c
Upper(s) == [k \in 1..Len(s) |-> UpperChar(s[k])]

\* Every sequence over S of length at most n.
RECURSIVE SeqsUpTo(_, _)
SeqsUpTo(S, n) ==
    IF n = 0 THEN {<<>>}
    ELSE LET shorter == SeqsUpTo(S, n - 1)
         IN  shorter \cup {Append(s, x) : s \in {y \in shorter : Len(y) = n - 1}, x \in S}

NA == <<"N","/","A">>
UK_NA == <<"U","K","_","N","A">>
EMEA == <<"E","M","E","A">>
APAC == <<"A","P","A","C">>
LATAM == <<"L","A","T","A","M">>

valid_regions == {Str(UK_NA), Str(EMEA), Str(APAC), Str(LATAM)}

(***************************************************************************)
(* The fixed country -> region table of analyzer.py.                       *)
(***************************************************************************)
UK_NA_COUNTRIES ==
    {<<"U","S">>, <<"C","A">>, <<"U","K">>, <<"G","B">>}

EMEA_COUNTRIES ==
    {<<"F","R">>, <<"D","E">>, <<"I","T">>, <<"E","S">>, <<"N","L">>, <<"B","E">>,
     <<"C","H">>, <<"A","T">>, <<"S","E">>, <<"N","O">>, <<"D","K">>, <<"F","I">>,
     <<"P","L">>, <<"C","Z">>, <<"H","U">>, <<"P","T">>, <<"I","E">>, <<"G","R">>,
     <<"R","O">>, <<"B","G">>, <<"H","R">>, <<"S","I">>, <<"S","K">>, <<"L","T">>,
     <<"L","V">>, <<"E","E">>, <<"M","T">>, <<"C","Y">>, <<"L","U">>, <<"A","E">>,
     <<"S","A">>, <<"Q","A">>, <<"K","W">>, <<"B","H">>, <<"O","M">>, <<"J","O">>,
     <<"L","B">>, <<"I","L">>, <<"T","R">>, <<"E","G">>, <<"Z","A">>, <<"M","A">>,
     <<"T","N">>, <<"D","Z">>, <<"L","Y">>, <<"S","D">>, <<"E","T">>, <<"K","E">>,
     <<"U","G">>, <<"T","Z">>, <<"Z","M">>, <<"Z","W">>, <<"B","W">>, <<"N","A">>,
     <<"M","Z">>, <<"A","O">>, <<"G","H">>, <<"N","G">>, <<"C","I">>, <<"S","N">>,
     <<"M","L">>, <<"B","F">>, <<"N","E">>, <<"T","D">>, <<"C","M">>, <<"C","F">>,
     <<"C","G">>, <<"C","D">>, <<"G","A">>, <<"G","Q">>, <<"S","T">>, <<"C","V">>,
     <<"G","M">>, <<"G","W">>, <<"S","L">>, <<"L","R">>, <<"G","N">>, <<"B","J">>,
     <<"T","G">>, <<"R","W">>, <<"B","I">>, <<"D","J">>, <<"S","O">>, <<"E","R">>,
     <<"M","W">>, <<"M","G">>, <<"M","U">>, <<"S","C">>, <<"K","M">>, <<"Y","T">>,
     <<"R","E">>}

APAC_COUNTRIES ==
    {<<"J","P">>, <<"C","N">>, <<"K","R">>, <<"S","G">>, <<"T","H">>, <<"M","Y">>,
     <<"I","D">>, <<"P","H">>, <<"V","N">>, <<"I","N">>, <<"P","K">>, <<"B","D">>,
     <<"L","K">>, <<"M","M">>, <<"K","H">>, <<"L","A">>, <<"B","N">>, <<"T","L">>,
     <<"M","N">>, <<"K","Z">>, <<"K","G">>, <<"T","J">>, <<"T","M">>, <<"U","Z">>,
     <<"A","F">>, <<"I","R">>, <<"I","Q">>, <<"S","Y">>, <<"Y","E">>, <<"P","S">>,
     <<"A","U">>, <<"N","Z">>, <<"P","G">>, <<"F","J">>, <<"S","B">>, <<"N","C">>,
     <<"P","F">>, <<"W","S">>, <<"V","U">>, <<"T","O">>, <<"T","V">>, <<"N","R">>,
     <<"K","I">>, <<"P","W">>, <<"M","H">>, <<"F","M">>, <<"G","U">>, <<"M","P">>,
     <<"A","S">>, <<"C","K">>, <<"N","U">>, <<"T","K">>, <<"W","F">>}

LATAM_COUNTRIES ==
    {<<"M","X">>, <<"B","R">>, <<"A","R">>, <<"C","L">>, <<"C","O">>, <<"P","E">>,
     <<"V","E">>, <<"E","C">>, <<"B","O">>, <<"P","Y">>, <<"U","Y">>, <<"G","Y">>,
     <<"S","R">>, <<"G","F">>, <<"C","R">>, <<"P","A">>, <<"N","I">>, <<"H","N">>,
     <<"G","T">>, <<"B","Z">>, <<"S","V">>, <<"C","U">>, <<"D","O">>, <<"H","T">>,
     <<"J","M">>, <<"T","T">>, <<"B","B">>, <<"G","D">>, <<"V","C">>, <<"L","C">>,
     <<"A","G">>, <<"D","M">>, <<"K","N">>, <<"B","S">>, <<"B","M">>, <<"P","R">>,
     <<"V","I">>, <<"A","W">>, <<"C","W">>, <<"S","X">>, <<"B","Q">>, <<"M","Q">>,
     <<"G","P">>, <<"B","L">>, <<"M","F">>, <<"P","M">>, <<"T","C">>, <<"A","I">>,
     <<"V","G">>, <<"K","Y">>, <<"M","S">>, <<"F","K">>}


(***************************************************************************)
(* validate_result                                                         *)
(***************************************************************************)
\* A raw or cleaned classification object: its four keys.
Result(c, r, h, s) ==
    [country |-> c, region |-> r, is_hangar_related |-> h, completion_status |-> s]

\* A plausible slip: the final branch falls back to the default region
\* instead of "N/A".
DeriveRegionDefaultFallback(country) ==
    IF country \in UK_NA_COUNTRIES THEN Str(UK_NA)
    ELSE IF country \in EMEA_COUNTRIES THEN Str(EMEA)
    ELSE IF country \in APAC_COUNTRIES THEN Str(APAC)
    ELSE IF country \in LATAM_COUNTRIES THEN Str(LATAM)
    ELSE Str(UK_NA)

\* analyzer.py: the if/elif chain that derives region from the country code
DeriveRegion(country) ==
    IF country \in UK_NA_COUNTRIES THEN Str(UK_NA)
    ELSE IF country \in EMEA_COUNTRIES THEN Str(EMEA)
    ELSE IF country \in APAC_COUNTRIES THEN Str(APAC)
    ELSE IF country \in LATAM_COUNTRIES THEN Str(LATAM)
    ELSE Str(NA)

\* A plausible slip: every absent flag falls back to False.
CoerceFlagDefaultFalse(v, default) == Bool(Truthy(Get(v, Bool(FALSE))))

\* bool(result.get(key, default))
CoerceFlag(v, default) == Bool(Truthy(Get(v, Bool(default))))

\* analyzer.py validate_result.  [raised |-> TRUE] stands for an exception
\* leaving the function (len() of a number, .upper() of a list).
validate_result_analyzer(result) ==
    LET country0 == Get(result.country, Str(NA))
        lenRaises == Truthy(country0) /\ ~HasLen(country0)
        twoLong == Truthy(country0) /\ HasLen(country0) /\ PyLen(country0) = 2
                     /\ country0 # Str(NA)
        upperRaises == twoLong /\ country0.t # "str"
        country == IF twoLong /\ country0.t = "str" THEN Upper(country0.s) ELSE NA
        current_region == Get(result.region, Null)
        region == IF current_region \notin valid_regions
                  THEN DeriveRegion(country)
                  ELSE current_region
    IN  IF lenRaises \/ upperRaises
        THEN [raised |-> TRUE, result |-> result]
        ELSE [raised |-> FALSE,
              result |-> Result(Str(country), region,
                                CoerceFlag(result.is_hangar_related, TRUE),
                                CoerceFlag(result.completion_status, FALSE))]

\* anaylzer.py validate_result: region first, then country, then the flags.
validate_result_anaylzer(result) ==
    LET region == IF Get(result.region, Null) \notin valid_regions
                  THEN Str(NA)
                  ELSE result.region
        country0 == Get(result.country, Str(NA))
        lenRaises == Truthy(country0) /\ ~HasLen(country0)
        force == Truthy(country0) /\ HasLen(country0) /\ PyLen(country0) # 2
                   /\ country0 # Str(NA)
    IN  IF lenRaises
        THEN [raised |-> TRUE, result |-> result]
        ELSE [raised |-> FALSE,
              result |-> Result(IF force THEN Str(NA) ELSE result.country, region,
                                CoerceFlag(result.is_hangar_related, FALSE),
                                CoerceFlag(result.completion_status, FALSE))]

validate_result(v, result) ==
    IF v = "analyzer" THEN validate_result_analyzer(result)
    ELSE validate_result_anaylzer(result)

(***************************************************************************)
(* Inputs of the validator: every raw object over these field values.      *)
(***************************************************************************)
MaxCountryLen == 3
CountryChars == {"u", "S", "A", "R", "1"}

RECURSIVE StringsUpTo(_)
StringsUpTo(n) ==
    IF n = 0 THEN {<<>>}
    ELSE LET shorter == StringsUpTo(n - 1)
         IN  shorter \cup {Append(s, c) : s \in {x \in shorter : Len(x) = n - 1},
                                          c \in CountryChars}

RawCountries ==
    {Missing, Null, Num(0), Num(1), Bool(TRUE), List(1), List(2), Str(NA)}
      \cup {Str(s) : s \in StringsUpTo(MaxCountryLen)}
InvalidRegions == {Missing, Null, Str(NA), Str(<<"e","m","e","a">>)}
RawRegions == valid_regions \cup InvalidRegions
RawFlags == {Missing, Null, Bool(TRUE), Bool(FALSE), Str(<<"n","o">>)}
RawResults ==
    {Result(c, r, h, s) : c \in RawCountries, r \in RawRegions,
                          h \in RawFlags, s \in RawFlags}


(***************************************************************************)
(* analyze_batch and process_all_articles                                  *)
(***************************************************************************)
\* An enriched item: the classification fields merged with the article it
\* was matched to (article = 0: no article attached).
Enriched(article, res) ==
    [article |-> article, country |-> res.country, region |-> res.region,
     is_hangar_related |-> res.is_hangar_related,
     completion_status |-> res.completion_status]

\* The LLM call of one batch: it raises (provider error, timeout, malformed
\* JSON), or json.loads succeeds and "results" holds these raw entries;
\* ids[k] is the article_id that entry k echoes.
LlmFail == [fail |-> TRUE, results |-> <<>>, ids |-> <<>>]
LlmResponse(rs, ids) == [fail |-> FALSE, results |-> rs, ids |-> ids]

\* A plausible slip: no try/except around the batch, the exception leaves
\* analyze_batch.
analyze_batch_no_catch(v, batch, llm) ==
    LET vals == [k \in 1..Len(llm.results) |-> validate_result(v, llm.results[k])]
        raises == \/ llm.fail
                  \/ \E k \in 1..Len(vals) : vals[k].raised
                  \/ v = "analyzer" /\ Len(llm.results) > Len(batch)
    IN  IF raises THEN [escaped |-> TRUE, results |-> <<>>]
        ELSE [escaped |-> FALSE,
              results |-> [k \in 1..Len(vals) |->
                             Enriched(IF v = "analyzer" THEN batch[k] ELSE 0,
                                      vals[k].result)]]

\* A plausible slip: entry k is merged onto the article its article_id names.
analyze_batch_by_id(v, batch, llm) ==
    LET vals == [k \in 1..Len(llm.results) |-> validate_result(v, llm.results[k])]
        raises == \/ llm.fail
                  \/ \E k \in 1..Len(vals) : vals[k].raised
                  \/ v = "analyzer" /\ \E k \in 1..Len(vals) : llm.ids[k] > Len(batch)
    IN  IF raises THEN [escaped |-> FALSE, results |-> <<>>]
        ELSE [escaped |-> FALSE,
              results |-> [k \in 1..Len(vals) |->
                             Enriched(IF v = "analyzer" THEN batch[llm.ids[k]] ELSE 0,
                                      vals[k].result)]]

\* analyze_batch: every exception inside the try block (the call, json.loads,
\* validate_result, articles[idx] past the end of the batch in analyzer.py)
\* is caught and the batch returns [].  analyzer.py merges result idx onto
\* articles[idx]; anaylzer.py returns the validated results alone.
analyze_batch(v, batch, llm) ==
    LET vals == [k \in 1..Len(llm.results) |-> validate_result(v, llm.results[k])]
        raises == \/ llm.fail
                  \/ \E k \in 1..Len(vals) : vals[k].raised
                  \/ v = "analyzer" /\ Len(llm.results) > Len(batch)
    IN  IF raises THEN [escaped |-> FALSE, results |-> <<>>]
        ELSE [escaped |-> FALSE,
              results |-> [k \in 1..Len(vals) |->
                             Enriched(IF v = "analyzer" THEN batch[k] ELSE 0,
                                      vals[k].result)]]

\* anaylzer.py process_all_articles: result j gets the title and summary of
\* batch[j] when j < len(batch).
AttachOriginals(batch, results) ==
    [j \in 1..Len(results) |->
        IF j <= Len(batch) THEN [results[j] EXCEPT !.article = batch[j]]
        ELSE results[j]]

\* A plausible slip: the slice starts one article late after the first batch.
BatchAtSkipping(arts, offset, size) ==
    LET from == IF offset = 0 THEN 0 ELSE offset + 1
    IN  SubSeq(arts, from + 1, IF offset + size < Len(arts) THEN offset + size ELSE Len(arts))

\* articles[i:i + batch_size]
BatchAt(arts, offset, size) ==
    SubSeq(arts, offset + 1, IF offset + size < Len(arts) THEN offset + size ELSE Len(arts))

\* The post-filter without its region test
PassesFilterAnyRegion(r, region) ==
    /\ Truthy(r.is_hangar_related)
    /\ r.completion_status = Bool(FALSE)

\* analyzer.py: the inline post-filter of process_all_articles
PassesFilter(r, region) ==
    /\ Truthy(r.is_hangar_related)
    /\ r.completion_status = Bool(FALSE)
    /\ r.region = Str(region)

\* What process_all_articles returns from the accumulated results.
Returned(v, results, region) ==
    IF v = "analyzer" THEN SelectSeq(results, LAMBDA r : PassesFilter(r, region))
    ELSE results

(***************************************************************************)
(* Inputs of the classifier.                                               *)
(***************************************************************************)
MaxArticles == 3
MaxBatchSize == 2

\* Raw entries an LLM response is built from: on topic and in territory,
\* off topic with the region left out, and one whose country is a number.
LlmEntries ==
    {Result(Str(<<"U","S">>), Str(UK_NA), Bool(TRUE), Bool(FALSE)),
     Result(Str(<<"S","A">>), Missing, Bool(FALSE), Missing),
     Result(Num(1), Str(EMEA), Bool(TRUE), Bool(TRUE))}

\* The article_id values a response of n entries to m articles echoes:
\* 1..n in submission order, or, with one entry per article, the same
\* numbers in reverse.
EchoedIds(n, m) ==
    {[k \in 1..n |-> k]} \cup (IF n = m THEN {[k \in 1..n |-> n + 1 - k]} ELSE {})

\* A response holds fewer entries than asked, as many, or one more.
LlmOutcomes(batch) ==
    {LlmFail} \cup UNION {{LlmResponse(rs, ids) : ids \in EchoedIds(Len(rs), Len(batch))} :
                             rs \in SeqsUpTo(LlmEntries, Len(batch) + 1)}


(***************************************************************************)
(* The cross-run deduplicator and the report writer.                       *)
(***************************************************************************)
Regions == {"uk_na", "emea"}

\* An article as the deduplicator and the writer read it: its 'Source URL'
\* ("" when the key is absent or empty) and its 'patterns' value, a list of
\* tags, a comma-separated string of tags, or absent.
Article(url, kind, tags) == [url |-> url, patterns |-> [kind |-> kind, tags |-> tags]]

\* str.split(',') with each piece stripped: the tags inside one tag text.
SplitTag(t) == IF t = "p,q" THEN <<"p", "q">> ELSE <<t>>

RECURSIVE SplitAll(_)
SplitAll(tags) ==
    IF tags = <<>> THEN <<>> ELSE SplitTag(Head(tags)) \o SplitAll(Tail(tags))

SeqToSet(s) == {s[k] : k \in 1..Len(s)}

\* update_existing_excel: article.get('patterns', []), split when a string
PatternsOf(article) ==
    IF article.patterns.kind = "missing" THEN <<>>
    ELSE IF article.patterns.kind = "str" THEN SplitAll(article.patterns.tags)
    ELSE article.patterns.tags

\* A row of a sheet: the 'Source URL' cell and the 'patterns' cell (a list
\* is written joined with ', ', so the cell holds the tag texts in order).
RowOf(article) == [url |-> article.url, patterns |-> article.patterns.tags]
RowsOf(arts) == [k \in 1..Len(arts) |-> RowOf(arts[k])]

Sheet(title, week, dup, rows) ==
    [name |-> [title |-> title, week |-> week, dup |-> dup], rows |-> rows]

\* create_new_excel: one sheet "Hangar Projects" holding the header row only
create_new_excel == <<Sheet("Hangar Projects", 0, 0, <<>>)>>

\* wb.create_sheet(title="W<week>"): a title already in the workbook gets a
\* numeric suffix.
NewTab(wb, week, rows) ==
    Sheet("W", week, Cardinality({k \in 1..Len(wb) : wb[k].name.title = "W"
                                                     /\ wb[k].name.week = week}), rows)

\* A plausible slip: the tags of the first sheet only
_load_first_sheet_patterns(wb) ==
    IF wb = <<>> THEN {}
    ELSE UNION {SeqToSet(SplitAll(wb[1].rows[j].patterns)) : j \in 1..Len(wb[1].rows)}

\* _load_all_patterns: every tag of the patterns cell of every row of every
\* sheet (empty cells skipped, the cell text split at commas).
_load_all_patterns(wb) ==
    UNION {UNION {SeqToSet(SplitAll(wb[k].rows[j].patterns)) : j \in 1..Len(wb[k].rows)} :
             k \in 1..Len(wb)}

\* get_existing_urls: the non-empty URL cells of every sheet
get_existing_urls(wb) ==
    UNION {{wb[k].rows[j].url : j \in 1..Len(wb[k].rows)} : k \in 1..Len(wb)} \ {""}

\* _load_existing_urls: for each region whose file exists, the non-empty URL
\* cells of wb.active, which is the first sheet of every workbook this
\* program writes.
_load_existing_urls(fs) ==
    UNION {IF fs[r] = <<>> THEN {}
           ELSE {fs[r][1].rows[j].url : j \in 1..Len(fs[r][1].rows)} \ {""} :
           r \in Regions}

\* A plausible slip: the new key is not remembered.
CommitUrlSkipped(seen, url) == seen

\* A plausible slip: the seen-set is replaced by the new key.
CommitUrlReplacing(seen, url) == {url}

\* self.existing_urls.add(url)
CommitUrl(seen, url) == seen \cup {url}

\* filter_new_urls: keep the articles whose URL is non-empty and not yet in
\* existing_urls, adding each kept URL at once.
RECURSIVE filter_new_urls(_, _)
filter_new_urls(arts, seen) ==
    IF arts = <<>> THEN [new_articles |-> <<>>, existing_urls |-> seen]
    ELSE LET a == Head(arts)
             keep == a.url # "" /\ a.url \notin seen
             rest == filter_new_urls(Tail(arts), IF keep THEN CommitUrl(seen, a.url) ELSE seen)
         IN  [new_articles |-> IF keep THEN <<a>> \o rest.new_articles
                               ELSE rest.new_articles,
              existing_urls |-> rest.existing_urls]

\* filter_new_articles: keep the articles whose URL is non-empty and in no
\* sheet of the file; nothing is remembered.
filter_new_articles(arts, wb) ==
    SelectSeq(arts, LAMBDA a : a.url # "" /\ a.url \notin get_existing_urls(wb))

\* A plausible slip: an article counts as new only when all its tags are new.
IsNewAllTags(article, pset) ==
    PatternsOf(article) # <<>> /\ \A k \in 1..Len(PatternsOf(article)) : PatternsOf(article)[k] \notin pset

\* any(p not in self.pattern_set for p in patterns)
IsNew(article, pset) ==
    \E k \in 1..Len(PatternsOf(article)) : PatternsOf(article)[k] \notin pset

\* A plausible slip: the filter keeps the new articles but adds no tag.
FilterByPatternNoCommit(new_data, pset) ==
    [filtered_new_data |-> SelectSeq(new_data, LAMBDA a : IsNew(a, pset)),
     pattern_set |-> pset]

\* The pattern filter of update_existing_excel: keep the new articles, adding
\* the tags of each kept article to pattern_set at once.
RECURSIVE FilterByPattern(_, _)
FilterByPattern(new_data, pset) ==
    IF new_data = <<>> THEN [filtered_new_data |-> <<>>, pattern_set |-> pset]
    ELSE LET a == Head(new_data)
             is_new == IsNew(a, pset)
             rest == FilterByPattern(Tail(new_data),
                                     IF is_new THEN pset \cup SeqToSet(PatternsOf(a)) ELSE pset)
         IN  [filtered_new_data |-> IF is_new THEN <<a>> \o rest.filtered_new_data
                                    ELSE rest.filtered_new_data,
              pattern_set |-> rest.pattern_set]

max_retries == 3

\* The filter of attempt n: each attempt filters new_data again, against
\* the pattern_set the attempts before it left behind.
RECURSIVE FilterOfAttempt(_, _, _)
FilterOfAttempt(n, new_data, pset) ==
    IF n <= 1 THEN FilterByPattern(new_data, pset)
    ELSE FilterByPattern(new_data, FilterOfAttempt(n - 1, new_data, pset).pattern_set)

\* update_existing_excel when the save of the first `locked` attempts meets
\* PermissionError: the file is created if absent, each attempt loads the
\* workbook, adds the tab, filters and saves; the call returns at the first
\* save that succeeds and raises after max_retries locked attempts.
update_existing_excel(wb, pset, new_data, week, locked) ==
    LET existing == IF wb = <<>> THEN create_new_excel ELSE wb
        ok == locked < max_retries
        attempts == IF ok THEN locked + 1 ELSE max_retries
        f == FilterOfAttempt(attempts, new_data, pset)
    IN  [ok |-> ok,
         wb |-> IF ok THEN Append(existing, NewTab(existing, week, RowsOf(f.filtered_new_data)))
                ELSE existing,
         pattern_set |-> f.pattern_set,
         filtered_new_data |-> IF ok THEN f.filtered_new_data ELSE <<>>,
         count |-> IF ok THEN Len(f.filtered_new_data) ELSE 0]

(***************************************************************************)
(* Inputs of the deduplicator and the writer.                              *)
(***************************************************************************)
MaxNew == 2         \* articles in the run's list
MaxTabs == 2        \* week tabs in one workbook

\* Sample articles: a list of one tag; a new URL whose tags come as one
\* comma-separated string sharing a tag with the first; no URL and no
\* 'patterns' key.
ArticleA == Article("u1", "list", <<"p">>)
ArticleB == Article("u2", "str", <<"p,q">>)
ArticleC == Article("", "missing", <<>>)
Articles == {ArticleA, ArticleB, ArticleC}
ArticleLists == SeqsUpTo(Articles, MaxNew)
Weeks == {45}

\* Files found at start: none, one to which an earlier run added the tab of
\* week 45, one whose first sheet already holds a row.
InitialWorkbooks ==
    {<<>>,
     Append(create_new_excel, NewTab(create_new_excel, 45, RowsOf(<<ArticleA>>))),
     <<Sheet("Hangar Projects", 0, 0, RowsOf(<<ArticleB>>))>>}

Tabs(wb) == Cardinality({k \in 1..Len(wb) : wb[k].name.title = "W"})

(***************************************************************************)
(* The report writer's retry loop and its file queries.                    *)
(***************************************************************************)
retry_delay == 2

\* What the save of one attempt meets: it succeeds, the file is locked
\* (PermissionError), or another exception is raised.
SaveOutcomes == {"ok", "locked", "other"}

\* The courses a call can take: the saves of the attempts before the last
\* one made are locked; the last one made succeeds, raises another
\* exception, or is the locked attempt number max_retries.
SaveCourses ==
    {c \in UNION {[1..n -> SaveOutcomes] : n \in 1..max_retries} :
        /\ \A k \in 1..(Len(c) - 1) : c[k] = "locked"
        /\ c[Len(c)] = "locked" => Len(c) = max_retries}

\* A plausible slip: the delay is not doubled.
NextDelayConstant(delay) == delay

\* retry_delay *= 2
NextDelay(delay) == delay * 2

\* The loop `for attempt in range(max_retries)` of update_existing_excel
\* from attempt (0-based) on: the call returns at the first save that
\* succeeds, sleeps retry_delay and doubles it after a locked attempt that
\* is not the last, re-raises PermissionError on the last, and re-raises any
\* other exception at once.
RECURSIVE RetryLoop(_, _, _, _)
RetryLoop(attempt, delay, outcomes, slept) ==
    IF attempt >= max_retries
    THEN [status |-> "exhausted", attempts |-> attempt, slept |-> slept]
    ELSE IF outcomes[attempt + 1] = "ok"
    THEN [status |-> "returned", attempts |-> attempt + 1, slept |-> slept]
    ELSE IF outcomes[attempt + 1] = "locked"
    THEN IF attempt < max_retries - 1
         THEN RetryLoop(attempt + 1, NextDelay(delay), outcomes, Append(slept, delay))
         ELSE [status |-> "PermissionError", attempts |-> attempt + 1, slept |-> slept]
    ELSE [status |-> "Exception", attempts |-> attempt + 1, slept |-> slept]

\* update_existing_excel under the given save outcomes: the effect on the
\* file and on pattern_set, with the course of the retry loop.  An attempt
\* whose save raises has filtered new_data before, so pattern_set keeps what
\* it added.
update_with_outcomes(wb, pset, new_data, week, outcomes) ==
    LET loop == RetryLoop(0, retry_delay, outcomes, <<>>)
        locked == IF loop.status = "PermissionError" THEN max_retries ELSE loop.attempts - 1
        u == update_existing_excel(wb, pset, new_data, week, locked)
        existing == IF wb = <<>> THEN create_new_excel ELSE wb
    IN  IF loop.status = "Exception"
        THEN [loop |-> loop, ok |-> FALSE, wb |-> existing,
              pattern_set |-> FilterOfAttempt(loop.attempts, new_data, pset).pattern_set,
              filtered_new_data |-> <<>>, count |-> 0]
        ELSE [loop |-> loop, ok |-> u.ok, wb |-> u.wb, pattern_set |-> u.pattern_set,
              filtered_new_data |-> u.filtered_new_data, count |-> u.count]

\* run_scraping_for_region: any exception of the steps inside its try makes
\* the run return False.
RunReturns(raised) == ~raised

\* get_file_info: exists, and row_count = max(0, ws.max_row - 1) of wb.active
get_file_info(wb) ==
    IF wb = <<>> THEN [exists |-> FALSE, row_count |-> 0]
    ELSE LET max_row == 1 + Len(wb[1].rows)
             row_count == max_row - 1
         IN  [exists |-> TRUE, row_count |-> IF row_count > 0 THEN row_count ELSE 0]

\* A call create_new_excel(*args): the method takes no argument besides
\* self, so a call that passes the articles raises TypeError before the
\* body runs; a call without arguments saves a workbook holding the sheet
\* "Hangar Projects" with the header row.
call_create_new_excel(wb, nargs) ==
    IF nargs # 0 THEN [raised |-> TRUE, wb |-> wb]
    ELSE [raised |-> FALSE, wb |-> create_new_excel]

(***************************************************************************)
(* One region's run: run_scraping_for_region with the objects it builds.   *)
(***************************************************************************)
\* The attributes class Config defines
ConfigAttributes ==
    {"SERPAPI_KEY", "OPENAI_API_KEY", "SMTP_SERVER", "SMTP_PORT", "EMAIL_USER",
     "EMAIL_PASSWORD", "SEARCH_QUERIES", "REGIONS", "REPORTS_DIR", "DATA_DIR",
     "EXCEL_FIELDS", "SCHEDULE_TIME", "SCHEDULE_DAY", "MAX_RESULTS_PER_QUERY",
     "BACKFILL_MONTHS"}

\* The credentials read from the environment: TRUE when the variable is
\* set, FALSE when os.getenv gives None.
Configs == [SERPAPI_KEY : BOOLEAN, EMAIL_USER : BOOLEAN, EMAIL_PASSWORD : BOOLEAN]

\* NewsScraper.__init__: ValueError when SERPAPI_KEY is not set
NewsScraper_init(cfg) == [raised |-> ~cfg.SERPAPI_KEY]

\* The attributes of self.config that EmailSender.__init__ reads
EmailSenderAttributes ==
    {"SMTP_SERVER", "SMTP_PORT", "EMAIL_USER", "EMAIL_PASSWORD", "RECIPIENT_EMAILS"}

\* EmailSender.__init__: reading an attribute Config does not define raises
\* AttributeError.
EmailSender_init(cfg) ==
    [raised |-> ~(EmailSenderAttributes \subseteq ConfigAttributes),
     email_user |-> cfg.EMAIL_USER,
     email_password |-> cfg.EMAIL_PASSWORD,
     recipient_emails |-> "RECIPIENT_EMAILS" \in ConfigAttributes]

\* send_report_email: False when the configuration is incomplete; the
\* filepath it is given must be a path (os.path.exists raises TypeError on a
\* tuple, which the method catches) of a file that exists; then the SMTP
\* exchange decides.
send_report_email(sender, filepath_is_path, file_exists, smtp_ok) ==
    IF ~(sender.email_user /\ sender.email_password /\ sender.recipient_emails) THEN FALSE
    ELSE IF ~filepath_is_path THEN FALSE
    ELSE IF ~file_exists THEN FALSE
    ELSE smtp_ok

\* What the run hands to send_report_email(filepath, region, article_count)
\* (main.py:105-107): excel_filepath is the (filepath, count) tuple that
\* update_existing_excel returned, article_count is len(new_articles).
ReportArgs(new_articles) ==
    [called |-> TRUE, filepath_is_path |-> FALSE, article_count |-> Len(new_articles)]
NoReport == [called |-> FALSE, filepath_is_path |-> FALSE, article_count |-> 0]

\* How far a run got and what it left behind.
RunResult(stage, scraped, written, emailed, returned, fs, seen, report, rows) ==
    [stage |-> stage, scraped |-> scraped, written |-> written, emailed |-> emailed,
     returned |-> returned, files |-> fs, existing_urls |-> seen,
     report |-> report, rows |-> rows]

\* The body of run_scraping_for_region once its three objects are built
\* (main.py:80-116): `found` is what scrape_all_sources and
\* process_articles deliver, `outcomes` the course of the saves.
run_body(fs, seen, region, week, found, outcomes, sender, smtp_ok) ==
    LET handler_patterns == _load_all_patterns(fs[region])
        f == filter_new_urls(found, seen)
        u == update_with_outcomes(fs[region], handler_patterns, f.new_articles, week, outcomes)
        written == [fs EXCEPT ![region] = u.wb]
        report == ReportArgs(f.new_articles)
        emailed == send_report_email(sender, report.filepath_is_path, TRUE, smtp_ok)
    IN  IF found = <<>>
        THEN RunResult("scrape", TRUE, FALSE, FALSE, FALSE, fs, seen, NoReport, <<>>)
        ELSE IF f.new_articles = <<>>
        THEN RunResult("filter", TRUE, FALSE, FALSE, TRUE, fs, f.existing_urls, NoReport, <<>>)
        ELSE IF ~u.ok
        THEN RunResult("update", TRUE, FALSE, FALSE, RunReturns(TRUE), written,
                       f.existing_urls, NoReport, <<>>)
        ELSE RunResult("done", TRUE, TRUE, emailed, RunReturns(FALSE), written,
                       f.existing_urls, report, u.filtered_new_data)

\* run_scraping_for_region(region): build the scraper, the handler and the
\* sender inside the try, then run the body.
run_scraping_for_region(cfg, fs, seen, region, week, found, outcomes, smtp_ok) ==
    LET scraper == NewsScraper_init(cfg)
        sender == EmailSender_init(cfg)
    IN  IF scraper.raised
        THEN RunResult("NewsScraper", FALSE, FALSE, FALSE, RunReturns(TRUE), fs, seen,
                       NoReport, <<>>)
        ELSE IF sender.raised
        THEN RunResult("EmailSender", FALSE, FALSE, FALSE, RunReturns(TRUE), fs, seen,
                       NoReport, <<>>)
        ELSE run_body(fs, seen, region, week, found, outcomes, sender, smtp_ok)

\* The EmailSender its constructor would leave had it returned: the
\* components built, as the body of the run takes them.
BuiltSender(cfg) ==
    [raised |-> FALSE, email_user |-> cfg.EMAIL_USER, email_password |-> cfg.EMAIL_PASSWORD,
     recipient_emails |-> TRUE]

\* The articles a run finds: process_articles gives them no 'patterns' key.
RunArticles == {Article("u1", "missing", <<>>), Article("u2", "missing", <<>>)}
FoundLists == SeqsUpTo(RunArticles, MaxNew)
\* self.regions, in the order the loops visit them
regions == <<"uk_na", "emea">>

\* A plausible slip: the loop ends at the first region whose run fails.
LoopContinuesWhileOk(idx, results) ==
    idx <= Len(regions) /\ \A k \in 1..Len(results) : results[k]

\* for region in self.regions: the loop of run_weekly_scraping and
\* run_backfill goes on while a region is left, whatever the runs returned.
LoopContinues(idx, results) == idx <= Len(regions)

(***************************************************************************)
(* The normalizer: NewsScraper.scrape_all_sources and process_articles.    *)
(***************************************************************************)
\* A search result as the normalizer reads it: article.get('link', '') (""
\* stands for an absent, empty or None link, all of them falsy) and
\* article.get('title', '') ("none" stands for a title of None, on which
\* .strip() raises AttributeError).
RawArticle(link, title) == [link |-> link, title |-> title]

\* _remove_duplicates without its seen_urls test
RECURSIVE _remove_duplicates_keeping_all(_, _)
_remove_duplicates_keeping_all(arts, seen_urls) ==
    IF arts = <<>> THEN <<>>
    ELSE LET article == Head(arts)
             url == article.link
         IN  IF url # ""
             THEN <<article>> \o _remove_duplicates_keeping_all(Tail(arts), seen_urls \cup {url})
             ELSE _remove_duplicates_keeping_all(Tail(arts), seen_urls)

\* _remove_duplicates: the loop over `articles` with its seen_urls set
RECURSIVE _remove_duplicates(_, _)
_remove_duplicates(arts, seen_urls) ==
    IF arts = <<>> THEN <<>>
    ELSE LET article == Head(arts)
             url == article.link
         IN  IF url # "" /\ url \notin seen_urls
             THEN <<article>> \o _remove_duplicates(Tail(arts), seen_urls \cup {url})
             ELSE _remove_duplicates(Tail(arts), seen_urls)

\* scrape_all_sources: the results of all searches, concatenated, without
\* duplicates
scrape_all_sources(all_articles) == _remove_duplicates(all_articles, {})

\* The dict process_articles builds for one article
ProcessedArticle(article) == [title |-> article.title, url |-> article.link]

\* process_articles: an article whose processing raises is logged and left out
RECURSIVE process_articles(_)
process_articles(arts) ==
    IF arts = <<>> THEN <<>>
    ELSE IF Head(arts).title = "none"
         THEN process_articles(Tail(arts))
         ELSE <<ProcessedArticle(Head(arts))>> \o process_articles(Tail(arts))

MaxRaw == 3
RawLinks == {"", "u1", "u2"}
RawTitles == {"t1", "t2", "none"}
RawArticles == {RawArticle(l, t) : l \in RawLinks, t \in RawTitles}
RawLists == SeqsUpTo(RawArticles, MaxRaw)

(***************************************************************************)
(* Two processes that each build an ExcelHandler for the same region and   *)
(* call update_existing_excel, as steps on the one file they share.        *)
(***************************************************************************)
Writers == {1, 2}
Other(w) == 3 - w

\* A writer process: where it stands, the articles it was given, its
\* handler's pattern_set, the workbook it loaded and the articles it wrote.
Writer(pc, new_data, pset, wb, written) ==
    [pc |-> pc, new_data |-> new_data, pattern_set |-> pset, wb |-> wb, written |-> written]

\* A process is inside its run from the construction of its handler to
\* its save.
Running(w) == writers[w].pc \in {"built", "loaded"}

\* datetime.now().isocalendar()[1] of both processes
current_week == CHOOSE w \in Weeks : TRUE


(***************************************************************************)
(* The searches: NewsScraper.search_google_news, search_bing_news and the  *)
(* loop of scrape_all_sources over the queries.                            *)
(***************************************************************************)
\* A search result is a record of its link, its date and its topic.
\* article.get('date', ''): Bing News dates are relative ("2d", "3h",
\* "5mon", "2y"; unit "" is the empty string), Google News dates are
\* absolute; an absolute date is kept as unit "abs" with its age in days.
\* The topic is what title and snippet hold: an MRO keyword ("mro"), an
\* exclude keyword ("excluded") or neither.
\* What the provider answers to one request is a record of its kind (it
\* raises "exception", it answers with an "error", it answers without
\* results "none", or it answers with "results") and the list of results.

\* _check_date: is the Bing News date string valid for the mode
_check_date(date, is_backfill) ==
    IF date.unit = "" THEN FALSE
    ELSE IF date.unit \in {"m", "h"} THEN TRUE
    ELSE IF date.unit = "d" THEN is_backfill \/ date.n < 8
    ELSE IF date.unit = "mon" /\ is_backfill THEN TRUE
    ELSE IF date.unit = "y" /\ is_backfill THEN date.n < 2
    ELSE FALSE

\* _filter_mro_articles: start_date is the number of days before now (0 is
\* None).  With a start_date an article is kept when _parse_article_date
\* reads its date (an absolute date) and the date is not before start_date.
_filter_mro_articles(arts, start_date) ==
    SelectSeq(arts, LAMBDA a :
        /\ a.topic = "mro"
        /\ start_date # 0 => (a.date.unit = "abs" /\ a.date.n <= start_date))

\* A plausible slip: no try/except in search_google_news
search_google_news_no_catch(resp, start) ==
    IF resp.kind = "exception"
    THEN [escaped |-> TRUE, logged |-> FALSE, returned |-> <<>>]
    ELSE IF resp.kind = "results"
    THEN [escaped |-> FALSE, logged |-> FALSE,
          returned |-> _filter_mro_articles(resp.results, start)]
    ELSE [escaped |-> FALSE, logged |-> TRUE, returned |-> <<>>]

\* search_google_news: the exception is logged and [] returned; a response
\* without "news_results" is logged (error or warning) and [] returned.
search_google_news(resp, start) ==
    IF resp.kind = "exception"
    THEN [escaped |-> FALSE, logged |-> TRUE, returned |-> <<>>]
    ELSE IF resp.kind = "results"
    THEN [escaped |-> FALSE, logged |-> FALSE,
          returned |-> _filter_mro_articles(resp.results, start)]
    ELSE [escaped |-> FALSE, logged |-> TRUE, returned |-> <<>>]

\* params['count'] = Config.MAX_RESULTS_PER_QUERY (10 in config.py, scaled
\* down to pages of two)
MAX_RESULTS_PER_QUERY == 2

\* A plausible slip: an article with a failing date is skipped and the ones
\* after it on the page are still collected.
ValidArticlesAnywhere(organic_results, is_backfill) ==
    SelectSeq(organic_results, LAMBDA a : _check_date(a.date, is_backfill))

\* The for loop over one page: the articles before the first one whose date
\* fails _check_date.
ValidArticles(organic_results, is_backfill) ==
    LET bad == {k \in 1..Len(organic_results) :
                  ~_check_date(organic_results[k].date, is_backfill)}
    IN  IF bad = {} THEN organic_results
        ELSE SubSeq(organic_results, 1, (CHOOSE k \in bad : \A j \in bad : k <= j) - 1)

\* One iteration of the while loop of search_bing_news, and the return when
\* the loop is left: pc "page" asks for the next page, pc "return" leaves.
search_bing_news(all_articles, first, resp, is_backfill) ==
    LET organic_results == IF resp.kind = "results" THEN resp.results ELSE <<>>
        valid == ValidArticles(organic_results, is_backfill)
        stop_paging == Len(valid) < Len(organic_results)
        collected == all_articles \o valid
        left(stop, logged, returned) ==
            [pc |-> "return", stop |-> stop, logged |-> logged,
             all_articles |-> <<>>, first |-> 1, returned |-> returned]
    IN  IF resp.kind = "exception" THEN left("exception", TRUE, <<>>)
        ELSE IF organic_results = <<>>
        THEN left("empty", FALSE, _filter_mro_articles(all_articles, 0))
        ELSE IF stop_paging
        THEN left("date", FALSE, _filter_mro_articles(collected, 0))
        ELSE IF Len(organic_results) < MAX_RESULTS_PER_QUERY
        THEN left("short", FALSE, _filter_mro_articles(collected, 0))
        ELSE [pc |-> "page", stop |-> "", logged |-> FALSE,
              all_articles |-> collected,
              first |-> first + MAX_RESULTS_PER_QUERY, returned |-> <<>>]

\* real_query = f"{query} {additional_query}" of the two nested loops
real_queries == <<"q1", "q2">>

(***************************************************************************)
(* Inputs of the searches.                                                 *)
(***************************************************************************)
\* The provider has at most MaxPages full pages for one query.
MaxPages == 2

\* Google News answers with at most one result: two days old, 800 days
\* old, or a museum piece.
GoogleResponses ==
    LET GoogleArticles ==
          {[link |-> "u1", date |-> [unit |-> "abs", n |-> 2], topic |-> "mro"],
           [link |-> "u5", date |-> [unit |-> "abs", n |-> 800], topic |-> "mro"],
           [link |-> "u6", date |-> [unit |-> "abs", n |-> 2], topic |-> "excluded"]}
    IN  {[kind |-> "exception", results |-> <<>>], [kind |-> "error", results |-> <<>>],
         [kind |-> "none", results |-> <<>>]}
        \cup {[kind |-> "results", results |-> rs] : rs \in SeqsUpTo(GoogleArticles, 1)}

\* The answers to the request for the page that starts at `first`: a
\* result two days old, a museum piece nine days old and a result two
\* years old; the last page the provider has is not a full one.
BingResponses(first) ==
    LET BingArticles ==
          {[link |-> "u1", date |-> [unit |-> "d", n |-> 2], topic |-> "mro"],
           [link |-> "u2", date |-> [unit |-> "d", n |-> 9], topic |-> "excluded"],
           [link |-> "u3", date |-> [unit |-> "y", n |-> 2], topic |-> "mro"]}
    IN  {[kind |-> "exception", results |-> <<>>], [kind |-> "error", results |-> <<>>]}
        \cup {[kind |-> "results", results |-> rs] :
                rs \in SeqsUpTo(BingArticles,
                                IF first < 1 + (MaxPages - 1) * MAX_RESULTS_PER_QUERY
                                THEN MAX_RESULTS_PER_QUERY
                                ELSE MAX_RESULTS_PER_QUERY - 1)}


(***************************************************************************)
(* The parts of the state a specification leaves alone.                    *)
(***************************************************************************)
IdleClassify ==
    /\ articles = <<>>
    /\ batch_size = 1
    /\ default_region = UK_NA
    /\ i = 0
    /\ all_results = <<>>
    /\ calls = <<>>
    /\ output = <<>>
    /\ cpc = "idle"

NoResult == [raised |-> FALSE, result |-> Result(Missing, Missing, Missing, Missing)]

IdleValidate ==
    /\ raw = NoResult.result
    /\ validated = NoResult
    /\ vpc = "idle"

\* The log entry of an operation: its name, what it returned, whether it
\* returned normally, whether a save was retried, and whether the operation
\* before it was the same one.
Op(op, result, ok, retried) ==
    [op |-> op, result |-> result, ok |-> ok, retried |-> retried, repeat |-> FALSE]
Repeat(op) == last.op = op

IdleDedup ==
    /\ files = [r \in Regions |-> <<>>]
    /\ self_region = "uk_na"
    /\ week_number = 45
    /\ candidates = <<>>
    /\ existing_urls = {}
    /\ pattern_set = {}
    /\ loaded = [urls |-> {}, patterns |-> {}]
    /\ last = Op("none", <<>>, TRUE, FALSE)

IdleNormalize ==
    /\ search_results = <<>>
    /\ unique_articles = <<>>
    /\ processed_articles = <<>>
    /\ npc = "idle"
    /\ search = [pc |-> "idle"]

IdleRun ==
    /\ config = [SERPAPI_KEY |-> TRUE, EMAIL |-> TRUE]
    /\ run = [region |-> "none"]

IdleConcurrent ==
    /\ artifact = <<>>
    /\ writers = <<>>
    /\ overlap = FALSE

(***************************************************************************)
(* Specification of the validator alone: one call on an arbitrary raw      *)
(* object.                                                                 *)
(***************************************************************************)
InitValidate ==
    /\ variant \in Variants
    /\ raw \in RawResults
    /\ validated = NoResult
    /\ vpc = "call"
    /\ IdleClassify
    /\ IdleDedup
    /\ IdleNormalize
    /\ IdleRun
    /\ IdleConcurrent

\* One call validate_result(raw).
Validate ==
    /\ vpc = "call"
    /\ validated' = validate_result(variant, raw)
    /\ vpc' = "done"
    /\ UNCHANGED <<normalizeVars, runVars, concurrentVars, variant, raw, classifyVars, dedupVars>>

NextValidate == Validate
SpecValidate == InitValidate /\ [][NextValidate]_vars

(***************************************************************************)
(* Specification of the classifier: one call of process_all_articles.      *)
(***************************************************************************)
InitClassify ==
    /\ variant \in Variants
    /\ IdleValidate
    /\ IdleDedup
    /\ IdleNormalize
    /\ IdleRun
    /\ IdleConcurrent
    /\ \E n \in 0..MaxArticles : articles = [k \in 1..n |-> k]
    /\ batch_size \in 1..MaxBatchSize
    /\ default_region \in {UK_NA, EMEA}
    /\ i = 0
    /\ all_results = <<>>
    /\ calls = <<>>
    /\ output = <<>>
    /\ cpc = "loop"

\* One iteration of the loop of process_all_articles: slice the batch, call
\* analyze_batch, extend all_results when the batch returned anything.
ProcessBatch ==
    /\ cpc = "loop"
    /\ i < Len(articles)
    /\ \E llm \in LlmOutcomes(BatchAt(articles, i, batch_size)) :
         LET batch == BatchAt(articles, i, batch_size)
             got == analyze_batch(variant, batch, llm)
             batch_results == IF variant = "anaylzer"
                              THEN AttachOriginals(batch, got.results)
                              ELSE got.results
         IN  /\ calls' = Append(calls, [batch |-> batch, llm |-> llm])
             /\ IF got.escaped
                THEN /\ cpc' = "raised"
                     /\ UNCHANGED <<all_results, i>>
                ELSE /\ all_results' = all_results \o batch_results
                     /\ i' = i + batch_size
                     /\ cpc' = "loop"
    /\ UNCHANGED <<normalizeVars, runVars, concurrentVars, variant, validateVars, dedupVars, articles, batch_size, default_region, output>>

\* The loop has run out: apply the post-filter (analyzer.py) and return.
ReturnResults ==
    /\ cpc = "loop"
    /\ i >= Len(articles)
    /\ output' = Returned(variant, all_results, default_region)
    /\ cpc' = "done"
    /\ UNCHANGED <<normalizeVars, runVars, concurrentVars, variant, validateVars, dedupVars, articles, batch_size, default_region, i,
                   all_results, calls>>

NextClassify == ProcessBatch \/ ReturnResults
SpecClassify == InitClassify /\ [][NextClassify]_vars

(***************************************************************************)
(* Specification of the deduplicator and the writer: a process working on  *)
(* one self_region (main.py region <id>) that holds a SafespillScraper and the  *)
(* region's ExcelHandler, whose operations are called in any order on the  *)
(* run's list of articles.                                                 *)
(***************************************************************************)
InitDedup ==
    /\ variant = "analyzer"
    /\ IdleValidate
    /\ IdleClassify
    /\ IdleNormalize
    /\ IdleRun
    /\ IdleConcurrent
    /\ files \in [Regions -> InitialWorkbooks]
    /\ self_region \in Regions
    /\ week_number \in Weeks
    /\ candidates \in ArticleLists
    /\ existing_urls = _load_existing_urls(files)
    /\ pattern_set = _load_all_patterns(files[self_region])
    /\ loaded = [urls |-> existing_urls, patterns |-> pattern_set]
    /\ last = Op("init", <<>>, TRUE, FALSE)

\* SafespillScraper.filter_new_urls(candidates)
FilterNewUrls ==
    LET f == filter_new_urls(candidates, existing_urls)
    IN  /\ existing_urls' = f.existing_urls
        /\ last' = [Op("filter_new_urls", f.new_articles, TRUE, FALSE)
                         EXCEPT !.repeat = Repeat("filter_new_urls")]
        /\ UNCHANGED <<files, self_region, week_number, candidates, pattern_set, loaded>>
        /\ UNCHANGED <<normalizeVars, runVars, concurrentVars, variant, validateVars, classifyVars>>

\* ExcelHandler.filter_new_articles(candidates)
FilterNewArticles ==
    /\ last' = [Op("filter_new_articles",
                    filter_new_articles(candidates, files[self_region]), TRUE, FALSE)
                     EXCEPT !.repeat = Repeat("filter_new_articles")]
    /\ UNCHANGED <<files, self_region, week_number, candidates, existing_urls, pattern_set, loaded>>
    /\ UNCHANGED <<normalizeVars, runVars, concurrentVars, variant, validateVars, classifyVars>>

\* ExcelHandler.update_existing_excel(candidates), the whole retry loop; the
\* save of the first `locked` attempts meets PermissionError.
UpdateExcel ==
    \E locked \in 0..max_retries :
        LET u == update_existing_excel(files[self_region], pattern_set, candidates, week_number, locked)
        IN  /\ Tabs(files[self_region]) < MaxTabs
            /\ files' = [files EXCEPT ![self_region] = u.wb]
            /\ pattern_set' = u.pattern_set
            /\ last' = [Op("update_existing_excel", u.filtered_new_data, u.ok, locked > 0)
                             EXCEPT !.repeat = Repeat("update_existing_excel")]
            /\ UNCHANGED <<self_region, week_number, candidates, existing_urls, loaded>>
            /\ UNCHANGED <<normalizeVars, runVars, concurrentVars, variant, validateVars, classifyVars>>

\* The region's ExcelHandler is constructed anew (run_scraping_for_region
\* builds one per run): pattern_set is loaded from the file.
NewHandler ==
    /\ pattern_set' = _load_all_patterns(files[self_region])
    /\ loaded' = [loaded EXCEPT !.patterns = pattern_set']
    /\ last' = Op("new_handler", <<>>, TRUE, FALSE)
    /\ UNCHANGED <<files, self_region, week_number, candidates, existing_urls>>
    /\ UNCHANGED <<normalizeVars, runVars, concurrentVars, variant, validateVars, classifyVars>>

\* A fresh process: SafespillScraper() loads existing_urls and the region's
\* handler is built from the file.
Restart ==
    /\ existing_urls' = _load_existing_urls(files)
    /\ pattern_set' = _load_all_patterns(files[self_region])
    /\ loaded' = [urls |-> existing_urls', patterns |-> pattern_set']
    /\ last' = Op("restart", <<>>, TRUE, FALSE)
    /\ UNCHANGED <<files, self_region, week_number, candidates>>
    /\ UNCHANGED <<normalizeVars, runVars, concurrentVars, variant, validateVars, classifyVars>>

NextDedup == FilterNewUrls \/ FilterNewArticles \/ UpdateExcel \/ NewHandler \/ Restart
SpecDedup == InitDedup /\ [][NextDedup]_vars

(***************************************************************************)
(* Specification of the report writer alone: the region's ExcelHandler is  *)
(* asked to create the file, to add the week's tab under every course of   *)
(* the saves, and for the file's information.                              *)
(***************************************************************************)
WriterOp(op, ok) ==
    [op |-> op, ok |-> ok, given |-> FALSE, outcomes |-> <<>>,
     loop |-> [status |-> "none", attempts |-> 0, slept |-> <<>>],
     count |-> 0, info |-> [exists |-> FALSE, row_count |-> 0]]

InitWriter ==
    /\ variant = "analyzer"
    /\ IdleValidate
    /\ IdleClassify
    /\ IdleNormalize
    /\ IdleRun
    /\ IdleConcurrent
    /\ self_region \in Regions
    /\ files \in {f \in [Regions -> InitialWorkbooks] :
                    \A r \in Regions \ {self_region} : f[r] = <<>>}
    /\ week_number \in Weeks
    /\ candidates \in ArticleLists
    /\ existing_urls = {}
    /\ pattern_set = _load_all_patterns(files[self_region])
    /\ loaded = [urls |-> {}, patterns |-> pattern_set]
    /\ last = [op |-> "init"]

\* handler.create_new_excel(candidates), as test_excel_handler calls it
CreateNewExcelWithData ==
    LET c == call_create_new_excel(files[self_region], 1)
    IN  /\ files' = [files EXCEPT ![self_region] = c.wb]
        /\ last' = [WriterOp("create_new_excel", ~c.raised) EXCEPT !.given = TRUE]
        /\ UNCHANGED <<self_region, week_number, candidates, existing_urls, pattern_set, loaded>>
        /\ UNCHANGED <<normalizeVars, runVars, concurrentVars, variant, validateVars, classifyVars>>

\* handler.create_new_excel()
CreateNewExcel ==
    LET c == call_create_new_excel(files[self_region], 0)
    IN  /\ files' = [files EXCEPT ![self_region] = c.wb]
        /\ last' = WriterOp("create_new_excel", ~c.raised)
        /\ UNCHANGED <<self_region, week_number, candidates, existing_urls, pattern_set, loaded>>
        /\ UNCHANGED <<normalizeVars, runVars, concurrentVars, variant, validateVars, classifyVars>>

\* handler.get_file_info()
GetFileInfo ==
    /\ last' = [WriterOp("get_file_info", TRUE) EXCEPT
                   !.info = get_file_info(files[self_region]),
                   !.given = IF last.op = "create_new_excel" THEN last.given ELSE FALSE]
    /\ UNCHANGED <<files, self_region, week_number, candidates, existing_urls, pattern_set, loaded>>
    /\ UNCHANGED <<normalizeVars, runVars, concurrentVars, variant, validateVars, classifyVars>>

\* handler.update_existing_excel(candidates), the whole retry loop
UpdateWithRetries ==
    \E outcomes \in SaveCourses :
        LET u == update_with_outcomes(files[self_region], pattern_set, candidates,
                                      week_number, outcomes)
        IN  /\ Tabs(files[self_region]) < MaxTabs
            /\ files' = [files EXCEPT ![self_region] = u.wb]
            /\ pattern_set' = u.pattern_set
            /\ last' = [WriterOp("update_existing_excel", u.ok) EXCEPT
                           !.outcomes = outcomes, !.loop = u.loop, !.count = u.count]
            /\ UNCHANGED <<self_region, week_number, candidates, existing_urls, loaded>>
            /\ UNCHANGED <<normalizeVars, runVars, concurrentVars, variant, validateVars, classifyVars>>

NextWriter == CreateNewExcelWithData \/ CreateNewExcel \/ GetFileInfo \/ UpdateWithRetries
SpecWriter == InitWriter /\ [][NextWriter]_vars

(***************************************************************************)
(* Specification of a region run (main.py region <id>): SafespillScraper   *)
(* is built under some configuration and run_scraping_for_region is called *)
(* once, for either region.                                                *)
(***************************************************************************)
InitRun ==
    /\ variant = "analyzer"
    /\ IdleValidate
    /\ IdleClassify
    /\ IdleNormalize
    /\ IdleConcurrent
    /\ config \in Configs
    /\ run = [region |-> "none"]
    /\ files \in [Regions -> InitialWorkbooks]
    /\ self_region = "uk_na"
    /\ week_number \in Weeks
    /\ candidates = <<>>
    /\ existing_urls = _load_existing_urls(files)
    /\ pattern_set = {}
    /\ loaded = [urls |-> existing_urls, patterns |-> {}]
    /\ last = Op("none", <<>>, TRUE, FALSE)

\* self.run_scraping_for_region(region), the whole call
RunRegion ==
    \E region \in Regions, found \in FoundLists, outcomes \in SaveCourses, smtp_ok \in BOOLEAN :
        LET r == run_scraping_for_region(config, files, existing_urls, region, week_number,
                                         found, outcomes, smtp_ok)
        IN  /\ run.region = "none"
            /\ Tabs(files[region]) < MaxTabs
            /\ files' = r.files
            /\ existing_urls' = r.existing_urls
            /\ run' = [region |-> region, found |-> found, outcomes |-> outcomes,
                       smtp_ok |-> smtp_ok, stage |-> r.stage, scraped |-> r.scraped,
                       written |-> r.written, emailed |-> r.emailed, returned |-> r.returned]
            /\ UNCHANGED <<config, self_region, week_number, candidates, pattern_set, loaded, last>>
            /\ UNCHANGED <<normalizeVars, concurrentVars, variant, validateVars, classifyVars>>

NextRun == RunRegion
SpecRun == InitRun /\ [][NextRun]_vars
(***************************************************************************)
(* Specification of the normalizer: the searches of a run deliver their    *)
(* results, scrape_all_sources removes the duplicates and process_articles *)
(* formats what is left.                                                   *)
(***************************************************************************)
InitNormalize ==
    /\ variant = "analyzer"
    /\ IdleValidate
    /\ IdleClassify
    /\ IdleDedup
    /\ IdleRun
    /\ IdleConcurrent
    /\ search_results \in RawLists
    /\ unique_articles = <<>>
    /\ processed_articles = <<>>
    /\ npc = "searched"
    /\ search = [pc |-> "idle"]

\* unique_articles = self._remove_duplicates(all_articles)
ScrapeAllSources ==
    /\ npc = "searched"
    /\ unique_articles' = scrape_all_sources(search_results)
    /\ npc' = "scraped"
    /\ UNCHANGED <<search_results, processed_articles, search>>
    /\ UNCHANGED <<variant, validateVars, classifyVars, dedupVars, runVars, concurrentVars>>

\* processed_articles = scraper.process_articles(articles)
ProcessArticles ==
    /\ npc = "scraped"
    /\ processed_articles' = process_articles(unique_articles)
    /\ npc' = "processed"
    /\ UNCHANGED <<search_results, unique_articles, search>>
    /\ UNCHANGED <<variant, validateVars, classifyVars, dedupVars, runVars, concurrentVars>>

NextNormalize == ScrapeAllSources \/ ProcessArticles
SpecNormalize == InitNormalize /\ [][NextNormalize]_vars

(***************************************************************************)
(* Specification of two writer processes on one region file.  Each step is *)
(* one access to the file: the handler's construction reads it, the load   *)
(* of update_existing_excel reads it (creating it when absent), the save   *)
(* replaces it by the loaded workbook with the new tab.  Saves succeed.    *)
(***************************************************************************)
InitConcurrent ==
    /\ variant = "analyzer"
    /\ IdleValidate
    /\ IdleClassify
    /\ IdleDedup
    /\ IdleNormalize
    /\ IdleRun
    /\ artifact \in InitialWorkbooks
    /\ writers \in [Writers -> {Writer("start", nd, {}, <<>>, <<>>) : nd \in ArticleLists}]
    /\ overlap = FALSE

\* ExcelHandler(region): self.pattern_set = self._load_all_patterns()
Construct(w) ==
    /\ writers[w].pc = "start"
    /\ writers' = [writers EXCEPT ![w].pc = "built",
                                  ![w].pattern_set = _load_all_patterns(artifact)]
    /\ overlap' = (overlap \/ Running(Other(w)))
    /\ UNCHANGED artifact
    /\ UNCHANGED <<variant, validateVars, classifyVars, dedupVars, normalizeVars, runVars>>

\* update_existing_excel: create the file when absent, load_workbook
Load(w) ==
    LET existing == IF artifact = <<>> THEN create_new_excel ELSE artifact
    IN  /\ writers[w].pc = "built"
        /\ artifact' = existing
        /\ writers' = [writers EXCEPT ![w].pc = "loaded", ![w].wb = existing]
        /\ UNCHANGED overlap
        /\ UNCHANGED <<variant, validateVars, classifyVars, dedupVars, normalizeVars, runVars>>

\* update_existing_excel: create_sheet, the pattern filter, wb.save
Save(w) ==
    LET f == FilterByPattern(writers[w].new_data, writers[w].pattern_set)
        wb == writers[w].wb
    IN  /\ writers[w].pc = "loaded"
        /\ artifact' = Append(wb, NewTab(wb, current_week, RowsOf(f.filtered_new_data)))
        /\ writers' = [writers EXCEPT ![w].pc = "saved",
                                      ![w].pattern_set = f.pattern_set,
                                      ![w].written = f.filtered_new_data]
        /\ UNCHANGED overlap
        /\ UNCHANGED <<variant, validateVars, classifyVars, dedupVars, normalizeVars, runVars>>

NextConcurrent == \E w \in Writers : Construct(w) \/ Load(w) \/ Save(w)
SpecConcurrent == InitConcurrent /\ [][NextConcurrent]_vars

(***************************************************************************)
(* Specification of the body of a region run (main.py:80-116), entered     *)
(* with the scraper, the handler and the sender built: scrape, filter by   *)
(* URL, write the week's tab, notify.  One run per behaviour.              *)
(***************************************************************************)
InitRunBody ==
    /\ variant = "analyzer"
    /\ IdleValidate
    /\ IdleClassify
    /\ IdleNormalize
    /\ IdleConcurrent
    /\ config \in {c \in Configs : c.SERPAPI_KEY}
    /\ run = [region |-> "none"]
    /\ files \in [Regions -> InitialWorkbooks]
    /\ self_region = "uk_na"
    /\ week_number \in Weeks
    /\ candidates = <<>>
    /\ existing_urls = _load_existing_urls(files)
    /\ pattern_set = {}
    /\ loaded = [urls |-> existing_urls, patterns |-> {}]
    /\ last = Op("none", <<>>, TRUE, FALSE)

\* lines 80-116 of run_scraping_for_region(region)
RunBody ==
    \E region \in Regions, found \in FoundLists, outcomes \in SaveCourses, smtp_ok \in BOOLEAN :
        LET r == run_body(files, existing_urls, region, week_number, found, outcomes,
                          BuiltSender(config), smtp_ok)
        IN  /\ run.region = "none"
            /\ Tabs(files[region]) < MaxTabs
            /\ files' = r.files
            /\ existing_urls' = r.existing_urls
            /\ run' = [region |-> region, found |-> found, outcomes |-> outcomes,
                       smtp_ok |-> smtp_ok, stage |-> r.stage, scraped |-> r.scraped,
                       written |-> r.written, emailed |-> r.emailed, returned |-> r.returned,
                       report |-> r.report, rows |-> r.rows]
            /\ UNCHANGED <<config, self_region, week_number, candidates, pattern_set, loaded, last>>
            /\ UNCHANGED <<normalizeVars, concurrentVars, variant, validateVars, classifyVars>>

NextRunBody == RunBody
SpecRunBody == InitRunBody /\ [][NextRunBody]_vars

(***************************************************************************)
(* Specification of the commands that run all regions (main.py weekly,     *)
(* main.py backfill): one command per behaviour, from the states InitRun   *)
(* gives, one step per iteration of its loop.                              *)
(***************************************************************************)
\* scraper.run_weekly_scraping() or scraper.run_backfill(): success = True
StartCommand ==
    \E command \in {"weekly", "backfill"} :
        /\ run.region = "none"
        /\ run' = [region |-> "all", command |-> command, idx |-> 1, attempted |-> <<>>,
                   results |-> <<>>, success |-> TRUE, returned |-> "running"]
        /\ UNCHANGED <<config, dedupVars>>
        /\ UNCHANGED <<normalizeVars, concurrentVars, variant, validateVars, classifyVars>>

\* One iteration: if not self.run_scraping_for_region(region, is_backfill):
\* success = False
RunNextRegion ==
    \E found \in FoundLists, outcomes \in SaveCourses, smtp_ok \in BOOLEAN :
        LET region == regions[run.idx]
            r == run_scraping_for_region(config, files, existing_urls, region, week_number,
                                         found, outcomes, smtp_ok)
        IN  /\ run.region = "all"
            /\ run.returned = "running"
            /\ LoopContinues(run.idx, run.results)
            /\ Tabs(files[region]) < MaxTabs
            /\ files' = r.files
            /\ existing_urls' = r.existing_urls
            /\ run' = [run EXCEPT !.idx = @ + 1,
                                  !.attempted = Append(@, region),
                                  !.results = Append(@, r.returned),
                                  !.success = IF r.returned THEN @ ELSE FALSE]
            /\ UNCHANGED <<config, self_region, week_number, candidates, pattern_set, loaded, last>>
            /\ UNCHANGED <<normalizeVars, concurrentVars, variant, validateVars, classifyVars>>

\* return success
ReturnSuccess ==
    /\ run.region = "all"
    /\ run.returned = "running"
    /\ ~LoopContinues(run.idx, run.results)
    /\ run' = [run EXCEPT !.returned = IF run.success THEN "True" ELSE "False"]
    /\ UNCHANGED <<config, dedupVars>>
    /\ UNCHANGED <<normalizeVars, concurrentVars, variant, validateVars, classifyVars>>

NextWeekly == StartCommand \/ RunNextRegion \/ ReturnSuccess
SpecWeekly == InitRun /\ [][NextWeekly]_vars


(***************************************************************************)
(* Specification of the searches: one call of scrape_all_sources, every    *)
(* query sent to Google News and then, page by page, to Bing News.         *)
(***************************************************************************)
InitSearch ==
    /\ variant = "analyzer"
    /\ IdleValidate
    /\ IdleClassify
    /\ IdleDedup
    /\ IdleRun
    /\ IdleConcurrent
    /\ search_results = <<>>
    /\ unique_articles = <<>>
    /\ processed_articles = <<>>
    /\ npc = "idle"
    /\ \E is_backfill \in BOOLEAN :
         search = [pc |-> "google", is_backfill |-> is_backfill, q |-> 1,
                   first |-> 1, all_articles |-> <<>>,
                   response |-> [kind |-> "none", results |-> <<>>],
                   last |-> [engine |-> "none", stop |-> "", logged |-> FALSE,
                            contributed |-> 0],
                   searched |-> <<>>]

\* start_date = now - 365 days in a backfill, else None (0);
\* google_results = self.search_google_news(real_query, start_date)
\* all_articles.extend(google_results)
SearchGoogleNews ==
    /\ search.pc = "google"
    /\ \E resp \in GoogleResponses :
         LET g == search_google_news(resp, IF search.is_backfill THEN 365 ELSE 0)
         IN  IF g.escaped
             THEN /\ search' = [search EXCEPT !.pc = "raised", !.response = resp]
                  /\ UNCHANGED search_results
             ELSE /\ search_results' = search_results \o g.returned
                  /\ search' = [search EXCEPT
                        !.pc = "bing", !.first = 1, !.all_articles = <<>>,
                        !.response = resp,
                        !.last = [engine |-> "google", stop |-> resp.kind,
                                  logged |-> g.logged,
                                  contributed |-> Len(g.returned)],
                        !.searched = Append(@, <<search.q, "google">>)]
    /\ UNCHANGED <<unique_articles, processed_articles, npc>>
    /\ UNCHANGED <<variant, validateVars, classifyVars, dedupVars, runVars, concurrentVars>>

\* One request of search_bing_news; when the loop is left,
\* all_articles.extend(bing_results) and the next query, or the end of the
\* loops.
SearchBingPage ==
    /\ search.pc = "bing"
    /\ \E resp \in BingResponses(search.first) :
         LET b == search_bing_news(search.all_articles, search.first, resp,
                                   search.is_backfill)
         IN  IF b.pc = "page"
             THEN /\ search' = [search EXCEPT
                        !.first = b.first, !.all_articles = b.all_articles,
                        !.response = resp]
                  /\ UNCHANGED search_results
             ELSE /\ search_results' = search_results \o b.returned
                  /\ search' = [search EXCEPT
                        !.pc = IF search.q < Len(real_queries) THEN "google" ELSE "dedupe",
                        !.q = IF search.q < Len(real_queries) THEN @ + 1 ELSE @,
                        !.first = 1, !.all_articles = <<>>,
                        !.response = resp,
                        !.last = [engine |-> "bing", stop |-> b.stop,
                                  logged |-> b.logged,
                                  contributed |-> Len(b.returned)],
                        !.searched = Append(@, <<search.q, "bing">>)]
    /\ UNCHANGED <<unique_articles, processed_articles, npc>>
    /\ UNCHANGED <<variant, validateVars, classifyVars, dedupVars, runVars, concurrentVars>>

\* unique_articles = self._remove_duplicates(all_articles); return
ReturnUnique ==
    /\ search.pc = "dedupe"
    /\ unique_articles' = _remove_duplicates(search_results, {})
    /\ search' = [search EXCEPT !.pc = "done"]
    /\ UNCHANGED <<search_results, processed_articles, npc>>
    /\ UNCHANGED <<variant, validateVars, classifyVars, dedupVars, runVars, concurrentVars>>

NextSearch == SearchGoogleNews \/ SearchBingPage \/ ReturnUnique
SpecSearch == InitSearch /\ [][NextSearch]_vars

\* The interpreter keeps running the call until it returns.
SpecSearchFair == SpecSearch /\ WF_vars(NextSearch)

(***************************************************************************)
(* Properties of the validator (checked under SpecValidate).               *)
(***************************************************************************)
Letters == {LowerLetters[k] : k \in 1..Len(LowerLetters)}
            \cup {UpperLetters[k] : k \in 1..Len(UpperLetters)}
IsTwoLetterCode(v) == v.t = "str" /\ Len(v.s) = 2 /\ \A k \in 1..2 : v.s[k] \in Letters
Returned_ == vpc = "done" /\ ~validated.raised
AllMappedCountries ==
    UK_NA_COUNTRIES \cup EMEA_COUNTRIES \cup APAC_COUNTRIES \cup LATAM_COUNTRIES

\* C1: validate_result is total: whatever the raw object, the call returns
\* a cleaned object and never raises.
C1_ValidatorTotal == vpc = "done" => ~validated.raised

\* C2: in every returned object country is present and is a 2-letter code
\* or "N/A", and a supplied country that is not a 2-letter code has been
\* forced to "N/A".
C2_CountryNormalized ==
    Returned_ =>
        /\ validated.result.country = Str(NA) \/ IsTwoLetterCode(validated.result.country)
        /\ ~IsTwoLetterCode(raw.country) => validated.result.country = Str(NA)

\* The region the fixed table gives for a country value.
TableRegion(c) ==
    IF c.t # "str" THEN Str(NA)
    ELSE IF c.s \in UK_NA_COUNTRIES THEN Str(UK_NA)
    ELSE IF c.s \in EMEA_COUNTRIES THEN Str(EMEA)
    ELSE IF c.s \in APAC_COUNTRIES THEN Str(APAC)
    ELSE IF c.s \in LATAM_COUNTRIES THEN Str(LATAM)
    ELSE Str(NA)
SuppliedRegionInvalid == Get(raw.region, Null) \notin valid_regions

\* C3 as stated: whenever the supplied region is invalid, the returned
\* region is the table's region for the returned country ("N/A" when the
\* country is unmapped or absent).
C3_RegionFromTable ==
    (Returned_ /\ SuppliedRegionInvalid) =>
        validated.result.region = TableRegion(validated.result.country)

\* C3 as amended: every returned region is one of the four regions or
\* "N/A"; with an invalid supplied region, analyzer.py returns the table's
\* region for the normalized country and anaylzer.py returns "N/A"; in both
\* the returned region is the same for every other invalid region value.
C3_RegionDerivation ==
    Returned_ =>
        /\ validated.result.region \in valid_regions \cup {Str(NA)}
        /\ SuppliedRegionInvalid =>
             /\ variant = "analyzer" =>
                  validated.result.region = TableRegion(validated.result.country)
             /\ variant = "anaylzer" => validated.result.region = Str(NA)
             /\ \A r2 \in InvalidRegions :
                  validate_result(variant, [raw EXCEPT !.region = r2]).result.region
                    = validated.result.region

\* An invalid region was supplied with a lower-case country of the table,
\* and analyzer.py derived the region from it.
C3_Witness ==
    /\ Returned_
    /\ variant = "analyzer"
    /\ raw.region = Str(<<"e","m","e","a">>)
    /\ raw.country = Str(<<"A","u">>)
    /\ validated.result.region = Str(APAC)

(***************************************************************************)
(* Properties of the classifier (checked under SpecClassify).              *)
(***************************************************************************)
CeilDiv(n, b) == (n + b - 1) \div b

RECURSIVE Flatten(_)
Flatten(ss) == IF ss = <<>> THEN <<>> ELSE Head(ss) \o Flatten(Tail(ss))

RECURSIVE SumSeq(_)
SumSeq(ns) == IF ns = <<>> THEN 0 ELSE Head(ns) + SumSeq(Tail(ns))

Batches == [k \in 1..Len(calls) |-> calls[k].batch]

\* The response of a call holds exactly one entry per submitted article and
\* every entry validates.
Complete(call) ==
    /\ ~call.llm.fail
    /\ Len(call.llm.results) = Len(call.batch)
    /\ \A k \in 1..Len(call.llm.results) :
         ~validate_result(variant, call.llm.results[k]).raised
AllComplete == \A k \in 1..Len(calls) : Complete(calls[k])
FailedOrComplete == \A k \in 1..Len(calls) : calls[k].llm.fail \/ Complete(calls[k])

\* ceil(N/B) calls over contiguous, disjoint batches of at most B articles
\* that cover the input in order.
BatchingShape ==
    /\ Len(calls) = CeilDiv(Len(articles), batch_size)
    /\ Flatten(Batches) = articles
    /\ \A k \in 1..Len(calls) : Len(calls[k].batch) \in 1..batch_size

InTerritory(r) ==
    /\ r.is_hangar_related = Bool(TRUE)
    /\ r.completion_status = Bool(FALSE)
    /\ r.region = Str(default_region)

\* What the two variants return from the accumulated results.
ReturnShape ==
    /\ variant = "anaylzer" => output = all_results
    /\ variant = "analyzer" =>
         /\ \A k \in 1..Len(output) : InTerritory(output[k])
         /\ Len(output) = Cardinality({k \in 1..Len(all_results) : InTerritory(all_results[k])})

\* C4 as stated: ceil(N/B) contiguous batches covering the input, and a
\* fully successful run returns classifications for all N articles.
C4_ReturnsAll ==
    cpc = "done" =>
        /\ BatchingShape
        /\ AllComplete => Len(output) = Len(articles)

\* C4 as amended: ceil(N/B) contiguous batches covering the input; when
\* every response holds one valid entry per article all N articles are
\* classified in order, anaylzer.py returns them all and analyzer.py
\* returns those that pass its post-filter.
C4_Batching ==
    cpc = "done" =>
        /\ BatchingShape
        /\ AllComplete =>
             /\ Len(all_results) = Len(articles)
             /\ \A k \in 1..Len(articles) : all_results[k].article = articles[k]
             /\ ReturnShape

\* Three articles went out in two batches, every response was complete.
C4_Witness ==
    /\ cpc = "done"
    /\ Len(articles) = 3
    /\ batch_size = 2
    /\ Len(calls) = 2
    /\ AllComplete
    /\ Len(all_results) = 3

SucceededSizes ==
    [k \in 1..Len(calls) |-> IF calls[k].llm.fail THEN 0 ELSE Len(calls[k].batch)]
SucceededArticles ==
    Flatten([k \in 1..Len(calls) |-> IF calls[k].llm.fail THEN <<>> ELSE calls[k].batch])

\* C5 as stated: no exception escapes, every batch is still processed, and
\* the output length is the number of articles of the succeeding batches.
C5_OutputCountsSucceeded ==
    /\ cpc # "raised"
    /\ cpc = "done" =>
         /\ Len(calls) = CeilDiv(Len(articles), batch_size)
         /\ FailedOrComplete => Len(output) = SumSeq(SucceededSizes)

\* C5 as amended: no exception escapes, every batch is still processed, a
\* batch whose call failed contributes nothing, and the results accumulated
\* before the post-filter are those of the succeeding batches; anaylzer.py
\* returns them all and analyzer.py those that pass its post-filter.
C5_PartialFailure ==
    /\ cpc # "raised"
    /\ cpc = "done" =>
         /\ Len(calls) = CeilDiv(Len(articles), batch_size)
         /\ \A k \in 1..Len(calls) :
              calls[k].llm.fail =>
                \A j \in 1..Len(all_results) :
                    \A a \in 1..Len(calls[k].batch) :
                        all_results[j].article # calls[k].batch[a]
         /\ FailedOrComplete =>
              /\ Len(all_results) = SumSeq(SucceededSizes)
              /\ [j \in 1..Len(all_results) |-> all_results[j].article] = SucceededArticles
         /\ ReturnShape

\* The first batch failed, a later one succeeded and its results are kept.
C5_Witness ==
    /\ cpc = "done"
    /\ Len(calls) >= 2
    /\ calls[1].llm.fail
    /\ Complete(calls[2])
    /\ Len(all_results) = Len(calls[2].batch)

(***************************************************************************)
(* Claims about the deduplicator and the writer (SpecDedup).               *)
(***************************************************************************)
DedupOps == {"filter_new_urls", "filter_new_articles", "update_existing_excel"}

\* The articles of arts at the positions in I, in the order of arts
Pick(arts, I) ==
    LET idx == SelectSeq([k \in 1..Len(arts) |-> k], LAMBDA k : k \in I)
    IN  [m \in 1..Len(idx) |-> arts[idx[m]]]

UrlsOf(arts) == {arts[k].url : k \in 1..Len(arts)}
KeyTags(a) == SeqToSet(PatternsOf(a))
TagsBefore(arts, k) == UNION {KeyTags(arts[j]) : j \in 1..(k - 1)}
TagsOf(arts) == TagsBefore(arts, Len(arts) + 1)

\* Positions whose URL is unseen and occurs at no earlier position
FirstUnseenUrl(arts, seen) ==
    {k \in 1..Len(arts) : /\ arts[k].url \notin seen
                          /\ \A j \in 1..(k - 1) : arts[j].url # arts[k].url}

\* Positions whose tag set is not covered by the seen tags and the tags of
\* the earlier positions
FirstUnseenTags(arts, seen) ==
    {k \in 1..Len(arts) : ~(KeyTags(arts[k]) \subseteq seen \cup TagsBefore(arts, k))}

HasUrl(arts) == {k \in 1..Len(arts) : arts[k].url # ""}
SheetUrls == get_existing_urls(files[self_region])

\* C6 (as stated): every deduplicator call returns exactly the articles of
\* its input whose key was not in the seen-set before the call, first
\* occurrence only, and commits the keys it returns (an article that has
\* no key is not returned).
C6_ExactlyFirstUnseen ==
    [][/\ last'.op = "filter_new_urls" =>
            /\ last'.result = Pick(candidates, FirstUnseenUrl(candidates, existing_urls)
                                                 \cap HasUrl(candidates))
            /\ existing_urls' = existing_urls \cup UrlsOf(last'.result)
       /\ last'.op = "filter_new_articles" =>
            last'.result = Pick(candidates, FirstUnseenUrl(candidates, SheetUrls)
                                              \cap HasUrl(candidates))
       /\ (last'.op = "update_existing_excel" /\ ~last'.retried) =>
            /\ last'.result = Pick(candidates, FirstUnseenTags(candidates, pattern_set))
            /\ pattern_set' = pattern_set \cup TagsOf(last'.result)]_vars

\* C6 (amended): filter_new_urls and the first pattern filter of
\* update_existing_excel return the first occurrence of every unseen key
\* and commit the keys they return; an article without a URL is never
\* returned by the URL filters; filter_new_articles returns every article
\* whose URL is in no sheet of the file, duplicates included, and commits
\* nothing.
C6_FilterContract ==
    [][/\ last'.op = "filter_new_urls" =>
            /\ last'.result = Pick(candidates, FirstUnseenUrl(candidates, existing_urls)
                                                 \cap HasUrl(candidates))
            /\ existing_urls' = existing_urls \cup UrlsOf(last'.result)
       /\ last'.op = "filter_new_articles" =>
            /\ last'.result = Pick(candidates,
                                   {k \in HasUrl(candidates) : candidates[k].url \notin SheetUrls})
            /\ UNCHANGED <<files, existing_urls, pattern_set>>
       /\ (last'.op = "update_existing_excel" /\ ~last'.retried) =>
            /\ last'.result = Pick(candidates, FirstUnseenTags(candidates, pattern_set))
            /\ pattern_set' = pattern_set \cup TagsOf(last'.result)]_vars

\* A call of filter_new_urls on a list that holds an unseen URL twice
\* returned one article.
C6_Witness ==
    /\ last.op = "filter_new_urls"
    /\ Len(last.result) = 1
    /\ \E j, k \in 1..Len(candidates) :
          j < k /\ candidates[j].url = candidates[k].url /\ candidates[j] = last.result[1]

PersistedUrls == get_existing_urls(files[self_region])
PersistedTags == _load_all_patterns(files[self_region])

\* C7 (as stated): in a fresh process no filter returns an article whose
\* key is persisted in a sheet of the region's file.
C7_PersistedKeySuppressed ==
    [][last.op \in {"init", "restart"} =>
          /\ last'.op = "filter_new_urls" =>
                \A k \in 1..Len(last'.result) : last'.result[k].url \notin PersistedUrls
          /\ last'.op = "filter_new_articles" =>
                \A k \in 1..Len(last'.result) : last'.result[k].url \notin PersistedUrls
          /\ last'.op = "update_existing_excel" =>
                \A k \in 1..Len(last'.result) :
                    ~(KeyTags(last'.result[k]) \subseteq PersistedTags)]_vars

\* C8 (as stated): a deduplicator call that directly follows the same call
\* on the same list returns nothing.
C8_SecondRunEmpty ==
    (last.op \in DedupOps /\ last.repeat) => last.result = <<>>

\* C8 (amended): filter_new_urls directly after filter_new_urls on the same
\* list, and update_existing_excel directly after update_existing_excel on
\* the same list, return nothing; filter_new_articles returns the same
\* articles again.
C8_Idempotent ==
    /\ (last.op \in {"filter_new_urls", "update_existing_excel"} /\ last.repeat)
          => last.result = <<>>
    /\ (last.op = "filter_new_articles" /\ last.repeat)
          => last.result = Pick(candidates,
                                {k \in HasUrl(candidates) : candidates[k].url \notin SheetUrls})

\* A second filter_new_urls returned nothing for a list holding a URL that
\* was not loaded at start, so the first call had returned it.
C8_Witness ==
    /\ last.op = "filter_new_urls"
    /\ last.repeat
    /\ last.result = <<>>
    /\ \E k \in 1..Len(candidates) : candidates[k].url \notin loaded.urls \cup {""}

\* C9: between two loads every operation leaves existing_urls and
\* pattern_set a superset of what they were, failed and retried writes
\* included, so both always contain what was loaded.
C9_SeenSetGrows ==
    /\ [](loaded.urls \subseteq existing_urls /\ loaded.patterns \subseteq pattern_set)
    /\ [][last'.op \in DedupOps =>
             (existing_urls \subseteq existing_urls' /\ pattern_set \subseteq pattern_set')]_vars

\* A write failed after all retries and the tags it committed are kept,
\* with URLs committed since the load.
C9_Witness ==
    /\ last.op = "update_existing_excel"
    /\ ~last.ok
    /\ pattern_set # loaded.patterns
    /\ existing_urls # loaded.urls

\* C10 (as stated): a successful update_existing_excel on an existing file
\* appends one sheet named by the week number that holds the rows of all
\* the articles it was given, in order, and leaves the other sheets as
\* they were.
C10_NewSectionHoldsRows ==
    [][(last'.op = "update_existing_excel" /\ last'.ok /\ files[self_region] # <<>>) =>
          files'[self_region] =
              Append(files[self_region], Sheet("W", week_number, 0, RowsOf(candidates)))]_vars

(***************************************************************************)
(* Claims about the report writer (SpecWriter).                            *)
(***************************************************************************)
\* The number of locked saves the course starts with
LeadingLocked(c) ==
    Cardinality({k \in 1..Len(c) : \A j \in 1..k : c[j] = "locked"})

\* C11: a locked save is retried after a sleep of 2 s, then 4 s, at most 3
\* attempts are made, the call returns at the first save that succeeds,
\* the third locked save raises PermissionError to the caller, whose run
\* then returns False, and any other exception is raised at once with no
\* further attempt.
C11_RetryBackoff ==
    last.op = "update_existing_excel" =>
        LET n == LeadingLocked(last.outcomes)
            loop == last.loop
        IN  /\ loop.attempts <= 3
            /\ loop.attempts = IF n = 3 THEN 3 ELSE n + 1
            /\ loop.slept = [k \in 1..(loop.attempts - 1) |-> 2 * 2 ^ (k - 1)]
            /\ last.ok <=> (n < 3 /\ last.outcomes[n + 1] = "ok")
            /\ loop.status = "PermissionError" <=> n = 3
            /\ loop.status = "Exception" <=> (n < 3 /\ last.outcomes[n + 1] = "other")
            /\ ~last.ok => ~RunReturns(TRUE)
            /\ last.ok => Tabs(files[self_region]) >= 1

\* Two saves were locked, the call slept 2 s and 4 s, and the third save
\* succeeded.
C11_Witness ==
    /\ last.op = "update_existing_excel"
    /\ last.outcomes = <<"locked", "locked", "ok">>
    /\ last.loop.slept = <<2, 4>>
    /\ last.ok


(***************************************************************************)
(* Claims about the region run (SpecRun).                                  *)
(***************************************************************************)
Ran == run.region # "none"
FoundNew == \E k \in 1..Len(run.found) : run.found[k].url \notin loaded.urls \cup {""}
SavesSucceed == run.outcomes[Len(run.outcomes)] = "ok"
EmailConfigured == config.EMAIL_USER /\ config.EMAIL_PASSWORD

C16_ConfigErrorsAreLocal ==
    Ran =>
        /\ ~config.SERPAPI_KEY => (~run.scraped /\ ~run.returned)
        /\ config.SERPAPI_KEY =>
             /\ run.scraped
             /\ (FoundNew /\ SavesSucceed) => run.written

(***************************************************************************)
(* Claims about the normalizer (SpecNormalize).                            *)
(***************************************************************************)
\* Positions of the raw results whose link is non-empty and occurs at no
\* earlier position
FirstOccurrences ==
    {k \in 1..Len(search_results) :
        /\ search_results[k].link # ""
        /\ \A j \in 1..(k - 1) : search_results[j].link # search_results[k].link}
Processable == {k \in 1..Len(search_results) : search_results[k].title # "none"}

\* C13: the normalizer's output holds no article with an empty Source URL
\* and no two articles with the same Source URL; every article it holds
\* stems from the first raw result with its URL, and the kept articles
\* stand in the order of the raw results.
C13_NormalizedUnique ==
    npc = "processed" =>
        /\ \A k \in 1..Len(processed_articles) : processed_articles[k].url # ""
        /\ \A j, k \in 1..Len(processed_articles) :
             processed_articles[j].url = processed_articles[k].url => j = k
        /\ unique_articles = Pick(search_results, FirstOccurrences)
        /\ processed_articles =
             Pick([k \in 1..Len(search_results) |-> ProcessedArticle(search_results[k])],
                  FirstOccurrences \cap Processable)

\* The same URL was found twice with different titles; the first result is
\* kept and a later result with another URL follows it.
C13_Witness ==
    /\ npc = "processed"
    /\ search_results = <<RawArticle("u1", "t1"), RawArticle("u1", "t2"), RawArticle("u2", "t1")>>
    /\ processed_articles = <<[title |-> "t1", url |-> "u1"], [title |-> "t1", url |-> "u2"]>>

(***************************************************************************)
(* Claims about the classifier's return value (SpecClassify).              *)
(***************************************************************************)
OnTopicInFlight == {k \in 1..Len(all_results) : InTerritory(all_results[k])}

\* C14: analyzer.py (post-filter) returns exactly the enriched articles
\* that are hangar related, not completed and of the target region, in
\* their original order; anaylzer.py (keep-all) returns every enriched
\* article.
C14_PostFilter ==
    cpc = "done" =>
        /\ variant = "analyzer" => output = Pick(all_results, OnTopicInFlight)
        /\ variant = "anaylzer" => output = all_results

\* The post-filter met three enriched articles, kept some and dropped some.
C14_Witness ==
    /\ cpc = "done"
    /\ variant = "analyzer"
    /\ Len(all_results) = 3
    /\ InTerritory(all_results[1])
    /\ ~InTerritory(all_results[2])
    /\ InTerritory(all_results[3])
    /\ Len(output) = 2

(***************************************************************************)
(* Claims about the seen-set and the regions (SpecDedup).                  *)
(***************************************************************************)
\* Every URL in any sheet of the running region's own file
OwnHistory == get_existing_urls(files[self_region])
\* The URLs this process has committed since its seen-set was loaded
CommittedInRun == existing_urls \ loaded.urls

\* C15 (as stated): filter_new_urls in a region's run suppresses an article
\* only when its URL is in that region's own history, was committed earlier
\* in the run or stands earlier in the list (an article without URL is
\* never returned).
C15_RegionLocalSeenSet ==
    [][last'.op = "filter_new_urls" =>
          \A k \in 1..Len(candidates) :
              (\A j \in 1..Len(last'.result) : last'.result[j] # candidates[k]) =>
                  \/ candidates[k].url = ""
                  \/ candidates[k].url \in OwnHistory
                  \/ candidates[k].url \in CommittedInRun
                  \/ \E j \in 1..(k - 1) : candidates[j].url = candidates[k].url]_vars

(***************************************************************************)
(* Claims about file creation (SpecWriter).                                *)
(***************************************************************************)
\* C17 (as stated): create_new_excel called with a list of articles leaves
\* the region's file with the header row and one row per article, and
\* get_file_info afterwards reports that the file exists with a row_count
\* equal to the number of articles.
C17_CreateWithArticles ==
    /\ (last.op = "create_new_excel" /\ last.given) =>
         /\ last.ok
         /\ files[self_region] = <<Sheet("Hangar Projects", 0, 0, RowsOf(candidates))>>
    /\ (last.op = "get_file_info" /\ last.given) =>
         /\ last.info.exists
         /\ last.info.row_count = Len(candidates)

(***************************************************************************)
(* Claims about the flags of the validator (SpecValidate).                 *)
(***************************************************************************)
Booleans == {Bool(TRUE), Bool(FALSE)}

\* C18: in every returned object both flags are booleans; a raw result
\* without completion_status gets false, and one without is_hangar_related
\* gets true in analyzer.py and false in anaylzer.py.  (A flag that is
\* present with the value null is coerced to false in both.)
C18_FlagDefaults ==
    Returned_ =>
        /\ validated.result.is_hangar_related \in Booleans
        /\ validated.result.completion_status \in Booleans
        /\ raw.completion_status = Missing => validated.result.completion_status = Bool(FALSE)
        /\ raw.is_hangar_related = Missing =>
             validated.result.is_hangar_related = Bool(variant = "analyzer")
        /\ raw.is_hangar_related = Null => validated.result.is_hangar_related = Bool(FALSE)

\* analyzer.py validated a raw result that carries neither flag.
C18_Witness ==
    /\ Returned_
    /\ variant = "analyzer"
    /\ raw.is_hangar_related = Missing
    /\ raw.completion_status = Missing
    /\ validated.result.is_hangar_related = Bool(TRUE)
    /\ validated.result.completion_status = Bool(FALSE)

(***************************************************************************)
(* Claims about the pattern identity scheme (SpecDedup).                   *)
(***************************************************************************)
\* The tags seen when the filter reaches position k: the seen-set at the
\* call and the tags of the articles before k
SeenAt(k) == pattern_set \cup TagsBefore(candidates, k)
NewByPattern == {k \in 1..Len(candidates) : \E t \in KeyTags(candidates[k]) : t \notin SeenAt(k)}

\* C19: the pattern filter of update_existing_excel keeps an article
\* exactly when at least one of its tags is not yet seen; all tags of a
\* kept article are then in the seen-set; an article whose tags are all
\* seen, or that has no tag, is dropped and adds nothing.  (When the save
\* is retried the filter runs again over the grown seen-set, where every
\* tag is seen, and keeps nothing.)
C19_PartialNovelty ==
    [][last'.op = "update_existing_excel" =>
          /\ ~last'.retried => last'.result = Pick(candidates, NewByPattern)
          /\ last'.retried => last'.result = <<>>
          /\ \A k \in NewByPattern : KeyTags(candidates[k]) \subseteq pattern_set'
          /\ pattern_set \subseteq pattern_set'
          /\ pattern_set' \ pattern_set \subseteq UNION {KeyTags(candidates[k]) : k \in NewByPattern}
          /\ \A k \in 1..Len(candidates) :
                KeyTags(candidates[k]) = {} =>
                    \A j \in 1..Len(last'.result) : last'.result[j] # candidates[k]]_vars

\* An article with one seen and one unseen tag was kept, and both its tags
\* are now seen.
C19_Witness ==
    /\ last.op = "update_existing_excel"
    /\ ~last.retried
    /\ "p" \in loaded.patterns
    /\ last.result = <<ArticleB>>
    /\ KeyTags(ArticleB) = {"p", "q"}
    /\ {"p", "q"} \subseteq pattern_set

(***************************************************************************)
(* Claims about concurrent writers (SpecConcurrent).                       *)
(***************************************************************************)
BothSaved == \A w \in Writers : writers[w].pc = "saved"
Min(a, b) == IF a <= b THEN a ELSE b
\* Fewer than two sheets were added to the workbook the first load saw
MissingSection == Len(artifact) < Min(Len(writers[1].wb), Len(writers[2].wb)) + 2
\* Some article was written by both processes
WrittenTwice ==
    \E j \in 1..Len(writers[1].written), k \in 1..Len(writers[2].written) :
        writers[1].written[j] = writers[2].written[k]

\* C20: two runs on the same file that do not overlap leave both sections
\* in the file and write no article twice, so a lost section or a twice
\* written article comes only from overlapping runs; and overlapping runs
\* do produce them (the witness).
C20_OverlapIsUnsafe ==
    BothSaved => ((MissingSection \/ WrittenTwice) => overlap)

\* Two overlapping runs have both saved rows; one section is missing from
\* the file and an article was written by both.
C20_Witness ==
    /\ BothSaved
    /\ overlap
    /\ MissingSection
    /\ WrittenTwice

(***************************************************************************)
(* Claims about the merge of classifications and articles (SpecClassify).  *)
(***************************************************************************)
\* The call of a batch raised inside analyze_batch's try block
BatchRaises(call) ==
    \/ call.llm.fail
    \/ \E k \in 1..Len(call.llm.results) : validate_result(variant, call.llm.results[k]).raised
    \/ variant = "analyzer" /\ Len(call.llm.results) > Len(call.batch)

\* Entry j of the response validated and merged onto article j of the batch
MergedByPosition(call) ==
    [j \in 1..Len(call.llm.results) |->
        Enriched(IF j <= Len(call.batch) THEN call.batch[j] ELSE 0,
                 validate_result(variant, call.llm.results[j]).result)]
InSubmissionOrder(call) == call.llm.ids = [j \in 1..Len(call.llm.results) |-> j]

\* C21: every batch that does not fail contributes entry j of its response,
\* validated, merged onto article j of the batch, whatever article_id the
\* entries echo; so when the ids are in submission order every enriched
\* article carries the classification given under its own id.
C21_MergeByPosition ==
    [][Len(calls') = Len(calls) + 1 =>
          LET call == calls'[Len(calls')]
              added == SubSeq(all_results', Len(all_results) + 1, Len(all_results'))
          IN  /\ all_results' = all_results \o added
              /\ added = IF BatchRaises(call) THEN <<>> ELSE MergedByPosition(call)
              /\ (InSubmissionOrder(call) /\ Len(call.llm.results) <= Len(call.batch)) =>
                    \A j \in 1..Len(added) : added[j].article = call.batch[call.llm.ids[j]]]_vars

\* A batch of two articles got two entries that echo the ids in reverse;
\* entry 1 (on topic) went onto article 1 and entry 2 (off topic) onto
\* article 2.
C21_Witness ==
    /\ Len(calls) = 1
    /\ Len(calls[1].batch) = 2
    /\ calls[1].llm.ids = <<2, 1>>
    /\ Len(all_results) = 2
    /\ all_results[1].article = 1 /\ all_results[1].is_hangar_related = Bool(TRUE)
    /\ all_results[2].article = 2 /\ all_results[2].is_hangar_related = Bool(FALSE)

\* The input list as it was handed to process_all_articles
InputUnchanged == articles = [k \in 1..Len(articles) |-> k]
\* The classifications the responses so far validate to
Classifications ==
    UNION {{validate_result(variant, calls[c].llm.results[k]).result :
              k \in {m \in 1..Len(calls[c].llm.results) :
                       ~validate_result(variant, calls[c].llm.results[m]).raised}} :
           c \in 1..Len(calls)}

\* C25 (as stated): classification leaves the input articles unchanged and
\* every enriched item is an input article together with the four
\* classification fields of a validated entry.
C25_EnrichedIsArticlePlusFields ==
    /\ InputUnchanged
    /\ \A j \in 1..Len(all_results) :
          \E a \in 1..Len(articles), c \in Classifications :
              all_results[j] = Enriched(articles[a], c)

\* C29 (as stated): a batch contributes at most as many items as it has
\* articles, each for a different article of the batch, so the call never
\* returns more items than it was given articles.
C29_AtMostOnePerArticle ==
    /\ \A c \in 1..Len(calls) :
          LET got == analyze_batch(variant, calls[c].batch, calls[c].llm).results
          IN  /\ Len(got) <= Len(calls[c].batch)
              /\ \A j, k \in 1..Len(got) :
                    (j # k /\ variant = "analyzer") => got[j].article # got[k].article
    /\ Len(all_results) <= Len(articles)
    /\ cpc = "done" => Len(output) <= Len(articles)

(***************************************************************************)
(* Claims about retried writes (SpecWriter).                               *)
(***************************************************************************)
\* C26 (as stated): an update_existing_excel that succeeds, after locked
\* attempts or not, writes the section and returns the count that a call
\* whose first save succeeds would.
C26_RetryWritesSameSection ==
    [][(last'.op = "update_existing_excel" /\ last'.ok) =>
          LET first == update_with_outcomes(files[self_region], pattern_set, candidates,
                                            week_number, <<"ok">>)
          IN  /\ files'[self_region] = first.wb
              /\ last'.count = first.count]_vars

(***************************************************************************)
(* Claims about the body of a region run (SpecRunBody).                    *)
(***************************************************************************)
\* The URLs in any sheet of the file of the region that was run
WrittenUrls == get_existing_urls(files[run.region])

C22_AllRegionsAttempted ==
    (run.region = "all" /\ run.returned # "running") =>
        /\ run.attempted = regions
        /\ Len(run.results) = Len(regions)
        /\ \A k \in 1..Len(run.results) : run.results[k] \in BOOLEAN
        /\ run.returned = "True" <=> (\A k \in 1..Len(run.results) : run.results[k])
        /\ run.returned \in {"True", "False"}

\* The first region's run failed, the second region was still run, and the
\* command returned False.
C22_Witness ==
    /\ run.region = "all"
    /\ run.command = "weekly"
    /\ run.returned = "False"
    /\ run.results[1] = FALSE
    /\ run.attempted = <<"uk_na", "emea">>

(***************************************************************************)
(* Claims about the searches (SpecSearch).                                 *)
(***************************************************************************)
\* The calls scrape_all_sources makes: every query, Google News and then
\* Bing News.
AllSearches ==
    [k \in 1..(2 * Len(real_queries)) |->
        <<(k + 1) \div 2, IF k % 2 = 1 THEN "google" ELSE "bing">>]

IsPrefix(s, t) == Len(s) <= Len(t) /\ SubSeq(t, 1, Len(s)) = s

\* A call of search_google_news or search_bing_news has just returned.
SearchReturned == Len(search'.searched) = Len(search.searched) + 1

\* C23, as stated: a search call that met a provider exception or an error
\* response is logged and contributes no article.
C23_EveryFailureLoggedAndEmpty ==
    (search.pc # "idle" /\ search.last.engine # "none"
       /\ search.response.kind \in {"exception", "error"}) =>
        /\ search.last.logged
        /\ search.last.contributed = 0

\* C23, as the code has it: no exception of a provider leaves a search
\* call; a call that raised is logged and contributes nothing; a Google
\* News response without results is logged and contributes nothing; a Bing
\* News response without results is not logged and ends the paging, the
\* call contributing the MRO articles of its earlier pages; whatever a call
\* met, the articles of the earlier calls are kept, the next call is made,
\* and scrape_all_sources returns, without duplicates, what the calls
\* contributed after every query went to both providers.
C23_FailureIsolated ==
    /\ [](search.pc \notin {"idle", "raised"})
    /\ [](search.pc = "done" =>
            /\ search.searched = AllSearches
            /\ unique_articles = scrape_all_sources(search_results))
    /\ [][SearchReturned =>
            /\ IsPrefix(search_results, search_results')
            /\ search'.pc \in {"google", "bing", "dedupe"}
            /\ search'.response.kind = "exception" =>
                 (search'.last.logged /\ search_results' = search_results)
            /\ (search.pc = "google" /\ search'.response.kind \in {"error", "none"}) =>
                 (search'.last.logged /\ search_results' = search_results)
            /\ (search.pc = "bing" /\ search'.response.kind = "error") =>
                 /\ ~search'.last.logged
                 /\ search_results' =
                      search_results \o _filter_mro_articles(search.all_articles, 0)]_vars

\* The Google News call of the second query raised: the articles of the
\* first query are kept and the Bing News call of the second query is next.
C23_Witness ==
    /\ search.pc = "bing"
    /\ search.q = 2
    /\ search.last.engine = "google"
    /\ search.response.kind = "exception"
    /\ search.last.logged
    /\ search_results # <<>>

\* A Bing News call whose second page came back as an error response: not
\* logged, and the article of the first page is contributed.
C23_BingErrorKeepsEarlierPages ==
    /\ search.pc # "idle"
    /\ search.last.engine = "bing"
    /\ search.response.kind = "error"
    /\ ~search.last.logged
    /\ search.last.contributed > 0

\* The least age, in days, of an article with that date: "2d" is two days
\* old, "5mon" at least 150, "1y" at least 365.
AgeDays(date) ==
    IF date.unit \in {"d", "abs"} THEN date.n
    ELSE IF date.unit = "mon" THEN 30 * date.n
    ELSE IF date.unit = "y" THEN 365 * date.n
    ELSE 0

\* The time window of a run, in days.
Window(is_backfill) == IF is_backfill THEN 365 ELSE 7

\* C24: every article collected by a run lies inside the run's time window:
\* no article older than 12 months in a backfill, none older than 7 days in
\* a weekly run.
C24_CollectedInsideWindow ==
    search.pc # "idle" =>
        /\ \A k \in 1..Len(search_results) :
             AgeDays(search_results[k].date) <= Window(search.is_backfill)
        /\ \A k \in 1..Len(unique_articles) :
             AgeDays(unique_articles[k].date) <= Window(search.is_backfill)

\* The number of leading articles of a page whose dates pass _check_date.
PassingPrefix(page, is_backfill) ==
    CHOOSE n \in 0..Len(page) :
        /\ \A j \in 1..n : _check_date(page[j].date, is_backfill)
        /\ n < Len(page) => ~_check_date(page[n + 1].date, is_backfill)

\* A request of search_bing_news has been answered.
BingStep == search.pc = "bing" /\ search' # search

====
